---- MODULE Spec2Model ----
(***************************************************************************)
(* thinktax: the event pipeline (collectors -> costing -> day-partitioned  *)
(* event store).  Nullable values are modelled as sequences of length at   *)
(* most one: NULL is the empty one and Some(v) the one holding v.  Money   *)
(* is counted in integer micro-USD so that tokens/1e6 * rate is            *)
(* tokens * rate.                                                          *)
(***************************************************************************)
EXTENDS Integers, Sequences, FiniteSets, TLC

VARIABLES
  files,        \* event store: day -> the lines of <eventsDir>/<day>.jsonl
  zone,         \* the process's local time zone (offset in ticks), fixed for a run
  lastCall,     \* store harness: the last storage call and its return value
  etagState,    \* state/etag.json: cache key -> NULL or Some(entry)
  now,          \* the wall clock, in ticks
  cursorRun,    \* cursor harness: what the last collectCursor run did
  pc,           \* refresh: "idle", "collecting", "done" or "failed"
  results,      \* refresh: collector -> NULL (still running) or Some(settled result)
  report,       \* refresh: what the last completed run reported (sync counts, written)
  event,        \* costing harness: the event handed to applyCosting
  pricing,      \* costing harness: the pricing table
  options,      \* costing harness: the CostingOptions
  result,       \* costing harness: what applyCosting returned (NULL before the call)
  resultEarlier, \* costing harness: what the earlier applyCosting variant returned
  heap,         \* costing harness: the objects of the caller, by address
  resultRef,    \* costing harness: the address of the object applyCosting returned
  call,         \* function harness: the function called and its arguments
  ret,          \* function harness: NULL before the call, then Some(returned value)
  logs,         \* collector harness: the collector and the records of its source log
  collected,    \* collector harness: the events of each run over `logs`, in run order
  write,        \* store: NULL, or Some(the writeEvents call that threw midway)
  writers       \* store: the writeEvents runs in progress, each at its step

costVars == <<event, pricing, options, result, resultEarlier, heap, resultRef>>

storeVars == <<files, zone, lastCall, write, writers>>

cursorVars == <<etagState, now, cursorRun>>

refreshVars == <<pc, results, report>>

fnVars == <<call, ret>>

collectVars == <<logs, collected>>

vars == <<storeVars, cursorVars, refreshVars, costVars, fnVars, collectVars>>

----------------------------------------------------------------------------
(* Nullable values *)

NULL == <<>>

Some(v) == <<v>>

Min(S) == CHOOSE x \in S : \A y \in S : x <= y

SeqsUpTo(S, n) == UNION {[1..k -> S] : k \in 0..n}

----------------------------------------------------------------------------
(* Bounds of the model *)

MaxTok == 1

MaxRate == 2

MaxTableLen == 2

MaxId == 2

MaxInstant == 2

MaxBatch == 2

MaxZone == 1

TicksPerDay == 2

MaxNow == 3

TtlTicks == 2

MaxRuns == 2

MaxEvents == 2

----------------------------------------------------------------------------
(* core/pricing.ts *)

\* model.includes(sub)
includes(s, sub) ==
  \E i \in 0..(Len(s) - Len(sub)) : SubSeq(s, i + 1, i + Len(sub)) = sub

\* mutant: one pass over the table that takes the first entry matching
\* exactly or as a substring
findPricing_onePass(table, provider, model) ==
  IF model = NULL \/ model[1] = <<>>
  THEN NULL
  ELSE LET m == model[1]
           n == Len(table.models)
           fuzzy == {i \in 1..n : table.models[i].provider = provider
                                  /\ includes(m, table.models[i].model)}
       IN IF fuzzy # {} THEN Some(table.models[Min(fuzzy)]) ELSE NULL

findPricing(table, provider, model) ==
  IF model = NULL \/ model[1] = <<>>
  THEN NULL
  ELSE LET m == model[1]
           n == Len(table.models)
           direct == {i \in 1..n : table.models[i].provider = provider
                                   /\ table.models[i].model = m}
           fuzzy == {i \in 1..n : table.models[i].provider = provider
                                  /\ includes(m, table.models[i].model)}
       IN IF direct # {} THEN Some(table.models[Min(direct)])
          ELSE IF fuzzy # {} THEN Some(table.models[Min(fuzzy)])
          ELSE NULL

\* mutant: a cache rate that is absent falls back to the input rate
estimateCostUsd_cacheAtInputRate(pm, tokens) ==
  LET input == tokens.in * pm.input_per_million
      output == tokens.out * pm.output_per_million
      cacheWrite == IF pm.cache_write_per_million # NULL
                    THEN tokens.cache_write * pm.cache_write_per_million[1]
                    ELSE tokens.cache_write * pm.input_per_million
      cacheRead == IF pm.cache_read_per_million # NULL
                   THEN tokens.cache_read * pm.cache_read_per_million[1]
                   ELSE tokens.cache_read * pm.input_per_million
  IN input + output + cacheWrite + cacheRead

estimateCostUsd(pm, tokens) ==
  LET input == tokens.in * pm.input_per_million
      output == tokens.out * pm.output_per_million
      cacheWrite == IF pm.cache_write_per_million # NULL
                    THEN tokens.cache_write * pm.cache_write_per_million[1]
                    ELSE 0
      cacheRead == IF pm.cache_read_per_million # NULL
                   THEN tokens.cache_read * pm.cache_read_per_million[1]
                   ELSE 0
  IN input + output + cacheWrite + cacheRead

----------------------------------------------------------------------------
(* core/cost.ts *)

\* mutant: a present option counts as enabled, whatever its value
includeUnknown_present(opts) == opts.includeUnknown # NULL

\* options.includeUnknown is truthy
includeUnknown(opts) == opts.includeUnknown = Some(TRUE)

\* mutant: the reported figure is looked at before the billing tag
applyCosting_reportedFirst(ev, table, opts) ==
  LET pricingModel == findPricing(table, ev.provider, ev.model)
      est == IF pricingModel # NULL
             THEN Some(estimateCostUsd(pricingModel[1], ev.tokens))
             ELSE ev.cost.estimated_usd
      updated == [ev EXCEPT !.cost.estimated_usd = est]
  IN IF ev.cost.reported_usd # NULL
     THEN [updated EXCEPT !.cost.final_usd = ev.cost.reported_usd,
                          !.cost.mode = IF est # NULL THEN "mixed" ELSE "reported"]
     ELSE IF ev.meta.billing = Some("subscription")
     THEN [updated EXCEPT !.cost.final_usd = Some(0),
                          !.cost.mode = "subscription"]
     ELSE IF pricingModel = NULL
     THEN [updated EXCEPT !.cost.mode = "unknown",
                          !.cost.final_usd = IF opts.includeUnknown = Some(TRUE)
                                             THEN est ELSE NULL]
     ELSE [updated EXCEPT !.cost.final_usd = est,
                          !.cost.mode = "estimated"]

\* mutant: with a resolvable price the estimate takes the place of the
\* reported figure
applyCosting_estimateWins(ev, table, opts) ==
  LET pricingModel == findPricing(table, ev.provider, ev.model)
      est == IF pricingModel # NULL
             THEN Some(estimateCostUsd(pricingModel[1], ev.tokens))
             ELSE ev.cost.estimated_usd
      updated == [ev EXCEPT !.cost.estimated_usd = est]
  IN IF ev.meta.billing = Some("subscription")
     THEN [updated EXCEPT !.cost.final_usd = Some(0),
                          !.cost.mode = "subscription"]
     ELSE IF ev.cost.reported_usd # NULL
     THEN [updated EXCEPT !.cost.final_usd = IF est # NULL THEN est
                                             ELSE ev.cost.reported_usd,
                          !.cost.mode = IF est # NULL THEN "mixed" ELSE "reported"]
     ELSE IF pricingModel = NULL
     THEN [updated EXCEPT !.cost.mode = "unknown",
                          !.cost.final_usd = IF opts.includeUnknown = Some(TRUE)
                                             THEN est ELSE NULL]
     ELSE [updated EXCEPT !.cost.final_usd = est,
                          !.cost.mode = "estimated"]

\* mutant: the estimated branch does not assign final_usd
applyCosting_finalNotSet(ev, table, opts) ==
  LET pricingModel == findPricing(table, ev.provider, ev.model)
      est == IF pricingModel # NULL
             THEN Some(estimateCostUsd(pricingModel[1], ev.tokens))
             ELSE ev.cost.estimated_usd
      updated == [ev EXCEPT !.cost.estimated_usd = est]
  IN IF ev.meta.billing = Some("subscription")
     THEN [updated EXCEPT !.cost.final_usd = Some(0),
                          !.cost.mode = "subscription"]
     ELSE IF ev.cost.reported_usd # NULL
     THEN [updated EXCEPT !.cost.final_usd = ev.cost.reported_usd,
                          !.cost.mode = IF est # NULL THEN "mixed" ELSE "reported"]
     ELSE IF pricingModel = NULL
     THEN [updated EXCEPT !.cost.mode = "unknown",
                          !.cost.final_usd = IF opts.includeUnknown = Some(TRUE)
                                             THEN est ELSE NULL]
     ELSE [updated EXCEPT !.cost.mode = "estimated"]

applyCosting(ev, table, opts) ==
  LET pricingModel == findPricing(table, ev.provider, ev.model)
      est == IF pricingModel # NULL
             THEN Some(estimateCostUsd(pricingModel[1], ev.tokens))
             ELSE ev.cost.estimated_usd
      updated == [ev EXCEPT !.cost.estimated_usd = est]
  IN IF ev.meta.billing = Some("subscription")
     THEN [updated EXCEPT !.cost.final_usd = Some(0),
                          !.cost.mode = "subscription"]
     ELSE IF ev.cost.reported_usd # NULL
     THEN [updated EXCEPT !.cost.final_usd = ev.cost.reported_usd,
                          !.cost.mode = IF est # NULL THEN "mixed" ELSE "reported"]
     ELSE IF pricingModel = NULL
     THEN [updated EXCEPT !.cost.mode = "unknown",
                          !.cost.final_usd = IF includeUnknown(opts) THEN est ELSE NULL]
     ELSE [updated EXCEPT !.cost.final_usd = est,
                          !.cost.mode = "estimated"]

\* An event in memory: the event object holds the addresses of its tokens,
\* cost, project and meta objects.  toHeap lays an event value out at
\* addresses 1..5, the event object last.
toHeap(ev) ==
  <<ev.tokens, ev.cost, ev.project, ev.meta,
    [ev EXCEPT !.tokens = 1, !.cost = 2, !.project = 3, !.meta = 4]>>

InputRef == 5

\* the value of the event object at ref, its parts read through their addresses
deref(h, ref) ==
  LET o == h[ref]
  IN [o EXCEPT !.tokens = h[o.tokens], !.cost = h[o.cost],
               !.project = h[o.project], !.meta = h[o.meta]]

\* mutant: { ...event }, the cost object is shared with the input
spreadEvent_shallow(h, ref) ==
  [heap |-> h \o <<h[h[ref].cost], h[ref]>>, ref |-> Len(h) + 2]

\* const updated = { ...event, cost: { ...event.cost } }: a new event object
\* with a new cost object; tokens, project and meta stay shared
spreadEvent(h, ref) ==
  [heap |-> h \o <<h[h[ref].cost], [h[ref] EXCEPT !.cost = Len(h) + 1]>>,
   ref |-> Len(h) + 2]

\* applyCosting on the object at ref: every assignment of the function is an
\* assignment to a field of updated.cost, and updated is what it returns
applyCostingAt(h, ref, table, opts) ==
  LET s == spreadEvent(h, ref)
      costed == applyCosting(deref(s.heap, s.ref), table, opts)
  IN [heap |-> [s.heap EXCEPT ![s.heap[s.ref].cost] = costed.cost], ref |-> s.ref]

\* the variant of applyCosting without the subscription branch
applyCostingEarlier(ev, table, opts) ==
  IF ev.cost.reported_usd # NULL
  THEN [ev EXCEPT !.cost.final_usd = ev.cost.reported_usd,
                  !.cost.mode = IF ev.cost.estimated_usd # NULL
                                THEN "mixed" ELSE "reported"]
  ELSE LET pricingModel == findPricing(table, ev.provider, ev.model)
       IN IF pricingModel = NULL
          THEN [ev EXCEPT !.cost.mode = "unknown",
                          !.cost.final_usd = IF includeUnknown(opts)
                                             THEN ev.cost.estimated_usd
                                             ELSE NULL]
          ELSE LET estimate == Some(estimateCostUsd(pricingModel[1], ev.tokens))
               IN [ev EXCEPT !.cost.estimated_usd = estimate,
                             !.cost.final_usd = estimate,
                             !.cost.mode = "estimated"]

----------------------------------------------------------------------------
(* Inputs of the costing harness *)

Providers == {"anthropic", "openai"}

ModelNames == {<<1>>, <<1, 2>>, <<2, 1>>}

Rates == {MaxRate}

PricingModels ==
  [provider : Providers,
   model : {<<1>>, <<1, 2>>},
   input_per_million : Rates,
   output_per_million : {MaxRate + 1},
   cache_write_per_million : {NULL, Some(1)},
   cache_read_per_million : {NULL}]

PricingTables ==
  {[models |-> ms] : ms \in {s \in SeqsUpTo(PricingModels, MaxTableLen) :
      \* one table per set of (provider, model) keys and order is enough
      \A i, j \in 1..Len(s) : i < j =>
          /\ s[i].model # s[j].model \/ s[i].provider # s[j].provider
          /\ s[i].cache_write_per_million = s[j].cache_write_per_million}}

\* every count of input tokens; none or the most of the other kinds
Tokens ==
  [in : 0..MaxTok, out : {0, MaxTok}, cache_write : {0, MaxTok}, cache_read : {0}]

Costs ==
  [reported_usd : {NULL, Some(5)},
   estimated_usd : {NULL, Some(4)},
   final_usd : {NULL, Some(7)},
   mode : {"unknown"}]

emptyProject == [id |-> NULL, name |-> NULL, root |-> NULL]

CostingEvents ==
  [id : {1},
   ts : {Some(0)},
   source : {"claude_code"},
   provider : Providers,
   model : {NULL} \cup {Some(m) : m \in ModelNames} \cup {Some(<<>>)},
   tokens : Tokens,
   cost : Costs,
   project : {emptyProject},
   meta : [billing : {NULL, Some("subscription"), Some("api")}]]

CostingOptions == [includeUnknown : {NULL, Some(TRUE), Some(FALSE)}]

----------------------------------------------------------------------------
(* core/events.ts, core/storage.ts *)

Range(s) == {s[i] : i \in 1..Len(s)}

\* DateTime.fromISO(event.ts).toISODate(): the calendar day of the instant in
\* the process's local zone; NULL when the string is not a valid ISO instant
toISODate(ts, z) == IF ts = NULL THEN NULL ELSE Some((ts[1] + z) \div TicksPerDay)

Days == 0..((MaxInstant + MaxZone) \div TicksPerDay)

\* A stored line is JSON.stringify(event); JSON.parse gives back an equal
\* value for an event (strings, finite numbers, null, plain objects), so a
\* file is the sequence of the events on its lines.
\* a file that does not exist reads as no items
readJsonl(fs, day) == IF day \in DOMAIN fs THEN fs[day] ELSE <<>>

\* mutant: the line is put at the head of the file
appendJsonl_atHead(fs, day, item) == [fs EXCEPT ![day] = <<item>> \o @]

appendJsonl(fs, day, item) == [fs EXCEPT ![day] = Append(@, item)]

\* the bucket of one day: the events of that day in arrival order
grouped(events, z, day) == SelectSeq(events, LAMBDA e : toISODate(e.ts, z) = Some(day))

\* mutant: the loop appends without consulting `seen`
fresh_noSeen(fs, day, dayEvents) == dayEvents

\* the events of dayEvents that the inner loop appends: `seen` is built once
\* from the file and is not extended while the bucket is appended
fresh(fs, day, dayEvents) ==
  LET existing == readJsonl(fs, day)
      seen == {existing[i].id : i \in 1..Len(existing)}
  IN SelectSeq(dayEvents, LAMBDA e : e.id \notin seen)

RECURSIVE appendEach(_, _, _)
appendEach(fs, day, items) ==
  IF items = <<>> THEN fs
  ELSE appendEach(appendJsonl(fs, day, Head(items)), day, Tail(items))

\* the loop over the day buckets; a bucket touches its own file only, so the
\* buckets are taken in day order
RECURSIVE writeDays(_, _, _, _)
writeDays(fs, days, events, z) ==
  IF days = {} THEN [files |-> fs, written |-> 0]
  ELSE LET day == Min(days)
           new == fresh(fs, day, grouped(events, z, day))
           rest == writeDays(appendEach(fs, day, new), days \ {day}, events, z)
       IN [files |-> rest.files, written |-> Len(new) + rest.written]

writeEvents(fs, events, z) ==
  IF Len(events) = 0 THEN [files |-> fs, written |-> 0]
  ELSE writeDays(fs, DOMAIN fs, events, z)

\* the days of the buckets in the order in which the Map `grouped` got them:
\* the order of their first event in the batch
RECURSIVE dayOrder(_, _, _)
dayOrder(events, z, had) ==
  IF events = <<>> THEN <<>>
  ELSE LET day == toISODate(Head(events).ts, z)
       IN IF day = NULL \/ day[1] \in had THEN dayOrder(Tail(events), z, had)
          ELSE <<day[1]>> \o dayOrder(Tail(events), z, had \cup {day[1]})

RECURSIVE callsOf(_, _, _, _)
callsOf(fs, days, events, z) ==
  IF days = <<>> THEN <<>>
  ELSE LET new == fresh(fs, Head(days), grouped(events, z, Head(days)))
       IN [k \in 1..Len(new) |-> [day |-> Head(days), item |-> new[k]]]
            \o callsOf(fs, Tail(days), events, z)

\* the appendJsonl calls of one writeEvents call, in the order they are made
appendCalls(fs, events, z) == callsOf(fs, dayOrder(events, z, {}), events, z)

RECURSIVE applyCalls(_, _, _)
applyCalls(fs, calls, n) ==
  IF n = 0 THEN fs
  ELSE LET c == calls[n]
       IN appendJsonl(applyCalls(fs, calls, n - 1), c.day, c.item)

\* writeEvents when fs.appendFileSync throws in the appendJsonl call after
\* the n-th: the exception leaves writeEvents, the n lines written stay
writeEventsThrowing(fs, events, z, n) == applyCalls(fs, appendCalls(fs, events, z), n)

\* mutant: the bucket is appended to what the file holds
writeJsonl_append(fs, day, items) == [fs EXCEPT ![day] = @ \o items]

\* writeJsonl: the file becomes the lines of items
writeJsonl(fs, day, items) == [fs EXCEPT ![day] = items]

\* the loop of overwriteEvents over the day buckets, in the order of the Map
RECURSIVE overwriteDays(_, _, _, _)
overwriteDays(fs, days, events, z) ==
  IF days = <<>> THEN [files |-> fs, written |-> 0]
  ELSE LET dayEvents == grouped(events, z, Head(days))
           rest == overwriteDays(writeJsonl(fs, Head(days), dayEvents),
                                 Tail(days), events, z)
       IN [files |-> rest.files, written |-> Len(dayEvents) + rest.written]

overwriteEvents(fs, events, z) ==
  IF Len(events) = 0 THEN [files |-> fs, written |-> 0]
  ELSE overwriteDays(fs, dayOrder(events, z, {}), events, z)

\* the *.jsonl files of the events directory, read one after the other
RECURSIVE readAll(_, _)
readAll(fs, days) ==
  IF days = {} THEN <<>>
  ELSE readJsonl(fs, Min(days)) \o readAll(fs, days \ {Min(days)})

loadAllStoredEvents(fs) == readAll(fs, DOMAIN fs)

----------------------------------------------------------------------------
(* Inputs of the store harness *)

mkEvent(id, ts, usd) ==
  [id |-> id,
   ts |-> ts,
   source |-> "codex_cli",
   provider |-> "openai",
   model |-> Some(<<1>>),
   tokens |-> [in |-> 1, out |-> 1, cache_write |-> 0, cache_read |-> 0],
   cost |-> [reported_usd |-> NULL, estimated_usd |-> Some(usd),
             final_usd |-> Some(usd), mode |-> "estimated"],
   meta |-> [billing |-> NULL]]

\* createEventId hashes a record that includes ts, so events with the same id
\* carry the same ts; what may differ under one id is the rest (here the cost)
tsOf(id) == Some(((id - 1) % MaxInstant) + 1)

StoreEvents ==
  {mkEvent(id, tsOf(id), 1) : id \in 1..MaxId}
  \cup {mkEvent(1, tsOf(1), 2)}   \* an id that arrives with another payload
  \cup {mkEvent(0, NULL, 1)}   \* a ts that is not an ISO instant

Batches == SeqsUpTo(StoreEvents, MaxBatch)

\* the writeEvents runs that may be in progress at once
Procs == {1, 2}

\* a run that has not been called
IdleRun == [pc |-> "idle", batch |-> <<>>, days |-> <<>>, seen |-> {}, todo |-> <<>>]

NoWriters == [run |-> [p \in Procs |-> IdleRun], overlapped |-> FALSE]

\* mutant: the inner loop does not consult `seen`
unseen_always(seen, ev) == TRUE

\* the test of the inner loop: `if (seen.has(event.id)) continue`
unseen(seen, ev) == ev.id \notin seen

\* writeEvents, step by step.  A run is at "read" before `await readJsonl`
\* of the bucket days[1] and at "append" inside that bucket's loop, with
\* `seen` as read and todo the bucket's events not yet looked at.
startRun(batch, z) ==
  LET days == dayOrder(batch, z, {})
  IN [pc |-> IF Len(batch) = 0 \/ days = <<>> THEN "done" ELSE "read",
      batch |-> batch, days |-> days, seen |-> {}, todo |-> <<>>]

\* readJsonl resolves: `seen` holds the ids the file has at this moment
readDay(r, fs, z) ==
  LET existing == readJsonl(fs, Head(r.days))
  IN [r EXCEPT !.pc = "append",
               !.seen = {existing[i].id : i \in 1..Len(existing)},
               !.todo = grouped(r.batch, z, Head(r.days))]

\* one pass of the inner loop; after the bucket's last event the outer loop
\* goes on to the next bucket or the call returns
appendNext(r, fs) ==
  LET ev == Head(r.todo)
      last == Tail(r.todo) = <<>>
  IN [files |-> IF unseen(r.seen, ev) THEN appendJsonl(fs, Head(r.days), ev) ELSE fs,
      run |-> [r EXCEPT !.todo = Tail(r.todo),
                        !.days = IF last THEN Tail(r.days) ELSE r.days,
                        !.pc = IF ~last THEN "append"
                               ELSE IF Tail(r.days) = <<>> THEN "done" ELSE "read"]]

----------------------------------------------------------------------------
(* core/aggregate.ts *)

\* A luxon DateTime: an instant (NULL when the DateTime is invalid) and the
\* zone it is shown in.
DateTime(t, z) == [t |-> t, zone |-> z]

\* DateTime.fromISO(ts): the instant the string denotes, in the local zone
fromISO(ts, z) == DateTime(ts, z)

setZone(dt, tz) == DateTime(dt.t, tz)

\* a < b on DateTimes compares valueOf(): the epoch instants, NaN when invalid
lessThan(a, b) == a.t # NULL /\ b.t # NULL /\ a.t[1] < b.t[1]

emptyTotals ==
  [count |-> 0, tokens_in |-> 0, tokens_out |-> 0, cache_write |-> 0,
   cache_read |-> 0, reported_usd |-> 0, estimated_usd |-> 0, final_usd |-> 0,
   unknown_cost |-> 0]

\* x ?? 0
orZero(x) == IF x = NULL THEN 0 ELSE x[1]

addTotals(target, ev) ==
  [count |-> target.count + 1,
   tokens_in |-> target.tokens_in + ev.tokens.in,
   tokens_out |-> target.tokens_out + ev.tokens.out,
   cache_write |-> target.cache_write + ev.tokens.cache_write,
   cache_read |-> target.cache_read + ev.tokens.cache_read,
   reported_usd |-> target.reported_usd + orZero(ev.cost.reported_usd),
   estimated_usd |-> target.estimated_usd + orZero(ev.cost.estimated_usd),
   final_usd |-> target.final_usd + orZero(ev.cost.final_usd),
   unknown_cost |-> target.unknown_cost + (IF ev.cost.mode = "unknown" THEN 1 ELSE 0)]

\* the bucket names "unknown" and "unassigned", as strings of the model
UnknownBucket == <<0>>

UnassignedBucket == <<0, 0>>

bucketKey(value, fallback) ==
  IF value # NULL /\ Len(value[1]) > 0 THEN value[1] ELSE fallback

\* event.project.name ?? event.project.id
projectName(ev) == IF ev.project.name # NULL THEN ev.project.name ELSE ev.project.id

\* mutant: an existing bucket is started over
addBreakdown_restart(breakdown, key, ev) ==
  [k \in DOMAIN breakdown \cup {key} |->
     IF k = key THEN addTotals(emptyTotals, ev) ELSE breakdown[k]]

\* a breakdown is a function from the bucket names it has to their Totals
addBreakdown(breakdown, key, ev) ==
  LET totals == IF key \in DOMAIN breakdown THEN breakdown[key] ELSE emptyTotals
  IN [k \in DOMAIN breakdown \cup {key} |->
        IF k = key THEN addTotals(totals, ev) ELSE breakdown[k]]

\* mutant: the window is open at both ends
inWindow_exclusive(ev, timezone, from, to, z) ==
  LET eventTime == setZone(fromISO(ev.ts, z), timezone)
  IN ~(~lessThan(from, eventTime) \/ ~lessThan(eventTime, to))

\* the negation of `eventTime < from || eventTime > to`
inWindow(ev, timezone, from, to, z) ==
  LET eventTime == setZone(fromISO(ev.ts, z), timezone)
  IN ~(lessThan(eventTime, from) \/ lessThan(to, eventTime))

emptySummary(timezone, from, to) ==
  [timezone |-> timezone, from |-> from, to |-> to, totals |-> emptyTotals,
   breakdowns |-> [provider |-> <<>>, source |-> <<>>, model |-> <<>>,
                   project |-> <<>>]]

\* the body of the loop over the events
addEvent(sum, ev) ==
  [sum EXCEPT
     !.totals = addTotals(@, ev),
     !.breakdowns.provider = addBreakdown(@, ev.provider, ev),
     !.breakdowns.source = addBreakdown(@, ev.source, ev),
     !.breakdowns.model = addBreakdown(@, bucketKey(ev.model, UnknownBucket), ev),
     !.breakdowns.project =
        addBreakdown(@, bucketKey(projectName(ev), UnassignedBucket), ev)]

RECURSIVE aggregateFrom(_, _, _)
aggregateFrom(sum, events, z) ==
  IF events = <<>> THEN sum
  ELSE aggregateFrom(
         IF inWindow(Head(events), sum.timezone, sum.from, sum.to, z)
         THEN addEvent(sum, Head(events)) ELSE sum,
         Tail(events), z)

\* z is the zone of the process (DateTime.fromISO parses into it)
aggregateEvents(events, timezone, from, to, z) ==
  aggregateFrom(emptySummary(timezone, from, to), events, z)

\* the calendar of the model: a month is DaysPerMonth days, a year
\* MonthsPerYear months
DaysPerMonth == 2

MonthsPerYear == 2

unitTicks(unit) ==
  CASE unit = "day" -> TicksPerDay
    [] unit = "month" -> DaysPerMonth * TicksPerDay
    [] unit = "year" -> MonthsPerYear * DaysPerMonth * TicksPerDay

\* dt.startOf(unit): the first instant of dt's calendar unit in dt's zone
startOf(dt, unit) ==
  LET n == unitTicks(unit)
  IN DateTime(Some((((dt.t[1] + dt.zone) \div n) * n) - dt.zone), dt.zone)

\* dt.plus({ days: 1 })
plusDay(dt) == DateTime(Some(dt.t[1] + TicksPerDay), dt.zone)

\* the while loop of loadEventsForRange: `cursor <= endDate` compares instants
RECURSIVE loadDays(_, _, _)
loadDays(fs, cursor, endDate) ==
  IF cursor.t[1] > endDate.t[1] THEN <<>>
  ELSE LET day == toISODate(cursor.t, cursor.zone)
       IN readJsonl(fs, day[1]) \o loadDays(fs, plusDay(cursor), endDate)

\* dirExists: fs.existsSync(eventsDir); the files are named by the calendar
\* days of `timezone`
loadEventsForRange(dirExists, fs, timezone, from, to) ==
  IF ~dirExists THEN <<>>
  ELSE loadDays(fs, startOf(setZone(from, timezone), "day"),
                    startOf(setZone(to, timezone), "day"))

\* A name of the events directory: "day" is YYYY-MM-DD.jsonl of a calendar
\* date, "no_date" has that form without being a date (2025-13-40.jsonl),
\* "other" any other name.  DateTime.fromISO(date) is the local midnight.
\* mutant: a file name is read as the end of its day
parseEventDate_endOfDay(fileName, z) ==
  IF fileName.kind = "day"
  THEN Some(DateTime(Some((fileName.day + 1) * TicksPerDay - z), z))
  ELSE NULL

parseEventDate(fileName, z) ==
  IF fileName.kind = "day"
  THEN Some(DateTime(Some(fileName.day * TicksPerDay - z), z))
  ELSE NULL

\* the loop of loadAllEvents over the directory listing
RECURSIVE scanNames(_, _, _, _)
scanNames(names, earliest, found, z) ==
  IF names = <<>> THEN [earliest |-> earliest, found |-> found]
  ELSE LET date == parseEventDate(Head(names), z)
       IN IF date = NULL THEN scanNames(Tail(names), earliest, found, z)
          ELSE IF ~found \/ lessThan(date[1], earliest)
               THEN scanNames(Tail(names), date[1], TRUE, z)
               ELSE scanNames(Tail(names), earliest, found, z)

\* mutant: the scan's `found` is not consulted
loadAllEvents_noFound(dirExists, names, fs, timezone, nowAt, z) ==
  IF ~dirExists THEN [events |-> <<>>, earliest |-> nowAt]
  ELSE LET s == scanNames(names, nowAt, FALSE, z)
       IN [events |-> loadEventsForRange(dirExists, fs, timezone, s.earliest, nowAt),
           earliest |-> s.earliest]

loadAllEvents(dirExists, names, fs, timezone, nowAt, z) ==
  IF ~dirExists THEN [events |-> <<>>, earliest |-> nowAt]
  ELSE LET s == scanNames(names, nowAt, FALSE, z)
       IN IF ~s.found THEN [events |-> <<>>, earliest |-> nowAt]
          ELSE [events |-> loadEventsForRange(dirExists, fs, timezone, s.earliest, nowAt),
                earliest |-> s.earliest]

loadSummaries(dirExists, names, fs, timezone, nowAt, z) ==
  LET startOfDay == startOf(setZone(nowAt, timezone), "day")
      startOfMonth == startOf(setZone(nowAt, timezone), "month")
      startOfYear == startOf(setZone(nowAt, timezone), "year")
      loaded == loadAllEvents(dirExists, names, fs, timezone, nowAt, z)
  IN [today |-> aggregateEvents(loaded.events, timezone, startOfDay, nowAt, z),
      mtd |-> aggregateEvents(loaded.events, timezone, startOfMonth, nowAt, z),
      ytd |-> aggregateEvents(loaded.events, timezone, startOfYear, nowAt, z),
      all |-> aggregateEvents(loaded.events, timezone, loaded.earliest, nowAt, z)]


----------------------------------------------------------------------------
(* collectors: from the records of a source log to events *)

\* createEventId: the SHA-1 of the JSON text of `parts`; two ids are equal
\* exactly when the hashed parts are, so the id is modelled by the parts
createEventId(parts) == parts

\* A timestamp field of a record: NULL when the field is absent, Some(t) with
\* t < 0 for a text that is not a valid instant, Some(t) for the instant t.
isValid(raw) == raw # NULL /\ raw[1] >= 0

\* a usage object: [input, output, cacheWrite, cacheRead]
allZero(u) == u.input = 0 /\ u.output = 0 /\ u.cacheWrite = 0 /\ u.cacheRead = 0

usageTokens(u) ==
  [in |-> u.input, out |-> u.output, cache_write |-> u.cacheWrite,
   cache_read |-> u.cacheRead]

emptyCost ==
  [reported_usd |-> NULL, estimated_usd |-> NULL, final_usd |-> NULL, mode |-> "unknown"]

RECURSIVE Concat(_)
Concat(ss) == IF ss = <<>> THEN <<>> ELSE Head(ss) \o Concat(Tail(ss))

\* claude.ts, openclaw.ts: null without a usage object or when the four
\* counts are 0
extractUsage(entry) ==
  IF entry.usage = NULL \/ allZero(entry.usage[1]) THEN NULL ELSE entry.usage

\* claude.ts, glean.ts: the first candidate field if it parses, else the
\* time of the run (new Date())
extractTimestamp(entry, t) ==
  IF isValid(entry.timestamp) THEN entry.timestamp ELSE Some(t)

\* the body of collectClaude's loop over the entries of a file; entry.skip
\* is shouldSkip(entry)
claudeEvent(entry, t) ==
  IF entry.skip THEN NULL
  ELSE LET usage == extractUsage(entry)
           ts == extractTimestamp(entry, t)
       IN IF usage = NULL THEN NULL
          ELSE Some([id |-> createEventId([source |-> "claude_code", ts |-> ts,
                                           model |-> entry.model, tokens |-> usage[1],
                                           extra |-> "instanceId"]),
                     ts |-> ts,
                     source |-> "claude_code",
                     provider |-> "anthropic",
                     model |-> entry.model,
                     tokens |-> usageTokens(usage[1]),
                     cost |-> emptyCost,
                     project |-> emptyProject,
                     meta |-> [billing |-> entry.billing]])

collectClaude(entries, t) ==
  Concat([i \in 1..Len(entries) |-> claudeEvent(entries[i], t)])

zeroUsage == [input |-> 0, output |-> 0, cacheWrite |-> 0, cacheRead |-> 0]

\* glean.ts, normalizeUsage: a token_count entry carries the usage of the
\* last turn and the session's running total; any other entry carries one
\* usage object, taken as both
normalizeUsage(entry) ==
  IF entry.kind = "token_count"
  THEN LET delta == IF entry.last = NULL THEN zeroUsage ELSE entry.last[1]
       IN IF allZero(delta) /\ entry.total = NULL THEN NULL
          ELSE Some([delta |-> delta, total |-> entry.total])
  ELSE IF entry.usage = NULL \/ allZero(entry.usage[1]) THEN NULL
  ELSE Some([delta |-> entry.usage[1], total |-> entry.usage])

\* mutant: the difference is taken as it is
max0_signed(n) == n

max0(n) == IF n > 0 THEN n ELSE 0

codexEvent(entry, delta, t) ==
  LET ts == extractTimestamp(entry, t)
  IN [id |-> createEventId([source |-> "codex_cli", ts |-> ts, model |-> entry.model,
                            tokens |-> delta, extra |-> "session"]),
      ts |-> ts,
      source |-> "codex_cli",
      provider |-> "openai",
      model |-> entry.model,
      tokens |-> usageTokens(delta),
      cost |-> emptyCost,
      project |-> emptyProject,
      meta |-> [billing |-> NULL]]

\* collectCodex, the loop over the entries of a session file from entry i
\* on, lastTotalUsage being the last running total seen; `last` is the
\* value of lastTotalUsage after the last entry
RECURSIVE codexFrom(_, _, _, _)
codexFrom(entries, i, lastTotalUsage, t) ==
  IF i > Len(entries) THEN [events |-> <<>>, last |-> lastTotalUsage]
  ELSE LET entry == entries[i]
           usage == normalizeUsage(entry)
       IN IF usage = NULL THEN codexFrom(entries, i + 1, lastTotalUsage, t)
          ELSE LET total == usage[1].total
               IN IF total # NULL /\ lastTotalUsage # NULL /\ total = lastTotalUsage
                  THEN codexFrom(entries, i + 1, lastTotalUsage, t)
                  ELSE LET delta ==
                             IF total # NULL /\ lastTotalUsage # NULL
                             THEN [input |-> max0(total[1].input - lastTotalUsage[1].input),
                                   output |-> max0(total[1].output - lastTotalUsage[1].output),
                                   cacheWrite |-> max0(total[1].cacheWrite
                                                         - lastTotalUsage[1].cacheWrite),
                                   cacheRead |-> max0(total[1].cacheRead
                                                        - lastTotalUsage[1].cacheRead)]
                             ELSE usage[1].delta
                           next == IF total # NULL THEN total ELSE lastTotalUsage
                           rest == codexFrom(entries, i + 1, next, t)
                       IN [rest EXCEPT !.events =
                             (IF allZero(delta) THEN <<>>
                              ELSE <<codexEvent(entry, delta, t)>>) \o @]

\* `let lastTotalUsage = null` at the head of the loop body over the files:
\* whatever the file before left, a file starts without a total
startTotal(left) == NULL

\* collectCodex, the loop over the session files from file i on
RECURSIVE codexFiles(_, _, _, _)
codexFiles(sessions, i, left, t) ==
  IF i > Len(sessions) THEN <<>>
  ELSE LET r == codexFrom(sessions[i], 1, startTotal(left), t)
       IN r.events \o codexFiles(sessions, i + 1, r.last, t)

collectCodexFiles(sessions, t) == codexFiles(sessions, 1, NULL, t)

\* collectCodex with one session file
collectCodex(entries, t) == collectCodexFiles(<<entries>>, t)

\* openclaw.ts: the ISO timestamp of the entry, else the epoch milliseconds
\* of the message, else the time of the run
openclawTimestamp(entry, t) ==
  IF isValid(entry.timestamp) THEN entry.timestamp
  ELSE IF entry.ms # NULL THEN entry.ms
  ELSE Some(t)

\* entry.skip: the entry is not a message or not of the assistant
openclawEvent(entry, t) ==
  IF entry.skip THEN NULL
  ELSE LET usage == extractUsage(entry)
           ts == openclawTimestamp(entry, t)
       IN IF usage = NULL THEN NULL
          ELSE Some([id |-> createEventId([source |-> "openclaw", ts |-> ts,
                                           model |-> entry.model, tokens |-> usage[1],
                                           extra |-> "sessionId"]),
                     ts |-> ts,
                     source |-> "openclaw",
                     provider |-> "anthropic",
                     model |-> entry.model,
                     tokens |-> usageTokens(usage[1]),
                     cost |-> emptyCost,
                     project |-> [id |-> Some(<<3>>), name |-> Some(<<3>>), root |-> NULL],
                     meta |-> [billing |-> entry.billing]])

collectOpenClaw(entries, t) ==
  Concat([i \in 1..Len(entries) |-> openclawEvent(entries[i], t)])

\* apprentice.ts: the entry's ts is taken as it is (not parsed); the event's
\* ts is that text, which is an instant only if it is valid
apprenticeEvent(entry) ==
  IF entry.timestamp = NULL \/ entry.usage = NULL THEN NULL
  ELSE IF allZero(entry.usage[1]) THEN NULL
  ELSE Some([id |-> createEventId([source |-> "apprentice", ts |-> entry.timestamp,
                                   model |-> entry.model, tokens |-> entry.usage[1],
                                   extra |-> "role"]),
             ts |-> IF isValid(entry.timestamp) THEN entry.timestamp ELSE NULL,
             source |-> "apprentice",
             provider |-> "openai",
             model |-> entry.model,
             tokens |-> usageTokens(entry.usage[1]),
             cost |-> emptyCost,
             project |-> [id |-> Some(<<4>>), name |-> Some(<<4>>), root |-> NULL],
             meta |-> [billing |-> Some("api")]])

collectApprentice(entries) ==
  Concat([i \in 1..Len(entries) |-> apprenticeEvent(entries[i])])

----------------------------------------------------------------------------
(* collectors/cursor.ts *)

DashKey == "cursor_dashboard_team"

TeamKey == "https://api.cursor.com/teams/spend"

CacheKeys == {DashKey, TeamKey}

\* rows of one tier; a row keeps the tier it came from (its meta differs per tier)
TierIndex(tier) ==
  CASE tier = "dashboard" -> 1 [] tier = "team" -> 2 [] tier = "local" -> 3
    [] tier = "transcript" -> 4

\* fetchCursorDashboard, the loop over a page's events: the timestamp is
\* epoch milliseconds in text, the counts of an event without tokenUsage
\* are 0, and a totalCents of 0 is no reported cost
dashboardRow(ev, t) ==
  LET u == ev.tokenUsage
  IN [ts |-> IF isValid(ev.timestamp) THEN ev.timestamp ELSE Some(t),
      model |-> ev.model,
      input |-> IF u = NULL THEN 0 ELSE u[1].input,
      output |-> IF u = NULL THEN 0 ELSE u[1].output,
      cacheWrite |-> IF u = NULL THEN 0 ELSE u[1].cacheWrite,
      cacheRead |-> IF u = NULL THEN 0 ELSE u[1].cacheRead,
      reportedUsd |-> IF u # NULL /\ u[1].totalCents # NULL /\ u[1].totalCents[1] # 0
                      THEN u[1].totalCents ELSE NULL,
      meta |-> [source |-> "dashboard_api", billing |-> NULL]]

\* parseCursorRows, one record: a count is the record's field if it is a
\* number and 0 otherwise (record.usage holds the four counts so obtained)
parseCursorRow(record, t) ==
  [ts |-> IF isValid(record.timestamp) THEN record.timestamp ELSE Some(t),
   model |-> record.model,
   input |-> record.usage.input,
   output |-> record.usage.output,
   cacheWrite |-> record.usage.cacheWrite,
   cacheRead |-> record.usage.cacheRead,
   reportedUsd |-> record.totalCents,
   meta |-> [record |-> record, billing |-> NULL]]

\* tryReadCursorLocal: the rows of parseCursorRows with the meta replaced
localRow(record, t) ==
  [parseCursorRow(record, t) EXCEPT !.meta = [source |-> "state.vscdb", billing |-> NULL]]

estimateTokensFromChars(chars) == IF chars <= 0 THEN 0 ELSE (chars + 3) \div 4

\* estimateCursorFromTranscripts, one transcript file
transcriptRow(file) ==
  LET inputTokens == estimateTokensFromChars(file.inputChars)
      outputTokens == estimateTokensFromChars(file.outputChars)
  IN IF inputTokens = 0 /\ outputTokens = 0 THEN NULL
     ELSE Some([ts |-> file.mtime,
                model |-> Some(<<2>>),
                input |-> inputTokens,
                output |-> outputTokens,
                cacheWrite |-> 0,
                cacheRead |-> 0,
                reportedUsd |-> NULL,
                meta |-> [mode |-> "local_transcript_estimate",
                          chars |-> [input |-> file.inputChars, output |-> file.outputChars],
                          billing |-> NULL]])

\* the rows a tier makes of the records of its source, read at time t
rowsOf(tier, records, t) ==
  Concat([i \in 1..Len(records) |->
            CASE tier = "dashboard" -> Some(dashboardRow(records[i], t))
              [] tier = "team" -> Some(parseCursorRow(records[i], t))
              [] tier = "local" -> Some(localRow(records[i], t))
              [] tier = "transcript" -> transcriptRow(records[i])])

\* the k-th record of a tier's source in the runs of collectCursor below: a
\* record with a timestamp and token counts
sourceRecord(tier, k) ==
  LET ts == tsOf(MaxId + (k - 1) * 4 + TierIndex(tier))
      counts == [input |-> 1, output |-> 1, cacheWrite |-> 0, cacheRead |-> 0]
  IN CASE tier = "dashboard" ->
            [timestamp |-> ts, model |-> Some(<<2>>),
             tokenUsage |-> Some([input |-> 1, output |-> 1, cacheWrite |-> 0,
                                  cacheRead |-> 0, totalCents |-> Some(5)])]
       [] tier = "team" ->
            [timestamp |-> ts, model |-> Some(<<2>>), usage |-> counts,
             totalCents |-> Some(5)]
       [] tier = "local" ->
            [timestamp |-> ts, model |-> Some(<<2>>), usage |-> counts,
             totalCents |-> NULL]
       [] tier = "transcript" ->
            [inputChars |-> 4, outputChars |-> 4, mtime |-> ts]

sourceRecords(tier, n) == [k \in 1..n |-> sourceRecord(tier, k)]

\* mutant: the entry is still valid when exactly the TTL has passed
cacheValid_atTtl(entry, t) ==
  /\ entry # NULL
  /\ isValid(entry[1].lastChecked)
  /\ t - entry[1].lastChecked[1] <= TtlTicks

\* entry?.lastChecked is set, Date.parse of it is not NaN, and
\* Date.now() - lastChecked < ttlMs
cacheValid(entry, t) ==
  /\ entry # NULL
  /\ isValid(entry[1].lastChecked)
  /\ t - entry[1].lastChecked[1] < TtlTicks

\* cfg.auth: a session token and a team id were found (config or state.vscdb)
\* env.dash: how the dashboard request ends; env.dashRows: rows of the pages
\* answered before that
fetchCursorDashboard(cfg, etag, t, env) ==
  IF ~cfg.auth
  THEN [rows |-> <<>>, skipped |-> TRUE, etag |-> etag, outcome |-> "no_auth"]
  ELSE IF cacheValid(etag[DashKey], t)
  THEN [rows |-> <<>>, skipped |-> TRUE, etag |-> etag, outcome |-> "cache_valid"]
  ELSE IF env.dash = "throw"
  THEN [rows |-> <<>>, skipped |-> FALSE, etag |-> etag, outcome |-> "threw"]
  ELSE [rows |-> rowsOf("dashboard", sourceRecords("dashboard", env.dashRows), t),
        skipped |-> FALSE,
        etag |-> [etag EXCEPT ![DashKey] = Some([etag |-> NULL, lastChecked |-> Some(t)])],
        outcome |-> IF env.dash = "error_status" THEN "error_status" ELSE "ok"]

\* cfg.url: a Team API URL resolves; env.team: how the request ends;
\* env.teamEtag: the response's etag header
fetchCursorSpend(cfg, etag, t, env) ==
  IF ~cfg.url
  THEN [rows |-> <<>>, skipped |-> TRUE, etag |-> etag, outcome |-> "no_url",
        rejected |-> FALSE]
  ELSE IF cacheValid(etag[TeamKey], t)
  THEN [rows |-> <<>>, skipped |-> TRUE, etag |-> etag, outcome |-> "cache_valid",
        rejected |-> FALSE]
  ELSE IF env.team = "throw"
  THEN [rows |-> <<>>, skipped |-> FALSE, etag |-> etag, outcome |-> "threw",
        rejected |-> TRUE]
  ELSE LET entry == etag[TeamKey]
           kept == IF entry # NULL THEN entry[1].etag ELSE NULL
           updated == [etag EXCEPT ![TeamKey] =
                         Some([etag |-> IF env.teamEtag # NULL THEN env.teamEtag ELSE kept,
                               lastChecked |-> Some(t)])]
       IN IF env.team = "not_modified"
          THEN [rows |-> <<>>, skipped |-> TRUE, etag |-> updated,
                outcome |-> "not_modified", rejected |-> FALSE]
          ELSE IF env.team = "error_status"
          THEN [rows |-> <<>>, skipped |-> TRUE, etag |-> updated,
                outcome |-> "error_status", rejected |-> FALSE]
          ELSE IF env.team = "bad_json"
          THEN [rows |-> <<>>, skipped |-> FALSE, etag |-> updated,
                outcome |-> "bad_json", rejected |-> TRUE]
          ELSE [rows |-> rowsOf("team", sourceRecords("team", env.teamRows), t), skipped |-> FALSE,
                etag |-> updated, outcome |-> "ok", rejected |-> FALSE]

tryReadCursorLocal(env, t) == rowsOf("local", sourceRecords("local", env.localRows), t)

estimateCursorFromTranscripts(env, t) ==
  rowsOf("transcript", sourceRecords("transcript", env.transcriptRows), t)

\* the id hashes source, ts, model and the whole row (tokens and meta)
cursorEventId(row) ==
  createEventId([source |-> "cursor_ide", ts |-> row.ts, model |-> row.model,
                 tokens |-> row])

\* collectCursor, the loop over the rows: every row makes an event
cursorEvent(row) ==
  [id |-> cursorEventId(row),
   ts |-> row.ts,
   source |-> "cursor_ide",
   provider |-> "cursor",
   model |-> row.model,
   tokens |-> usageTokens(row),
   cost |-> [emptyCost EXCEPT !.reported_usd = row.reportedUsd],
   project |-> emptyProject,
   meta |-> row.meta]

cursorEvents(rows) == [i \in 1..Len(rows) |-> cursorEvent(rows[i])]

collectCursor(cfg, etag, t, env) ==
  LET d == fetchCursorDashboard(cfg, etag, t, env)
      t2 == Len(d.rows) = 0 /\ ~d.skipped
      s == fetchCursorSpend(cfg, d.etag, t, env)
      fetched == IF t2 THEN [rows |-> s.rows, skipped |-> s.skipped]
                 ELSE [rows |-> d.rows, skipped |-> d.skipped]
      t3 == Len(fetched.rows) = 0 /\ ~fetched.skipped
      rows3 == IF t3 THEN tryReadCursorLocal(env, t) ELSE fetched.rows
      t4 == Len(rows3) = 0
      rows == IF t4 THEN estimateCursorFromTranscripts(env, t) ELSE rows3
  IN IF t2 /\ s.rejected
     THEN [status |-> "rejected", events |-> <<>>, etag |-> s.etag,
           tier1 |-> d.outcome, tier2 |-> s.outcome, tier3 |-> FALSE, tier4 |-> FALSE,
           rows1 |-> Len(d.rows), rows2 |-> 0, rows3 |-> 0]
     ELSE [status |-> "returned",
           events |-> cursorEvents(rows),
           etag |-> IF t2 THEN s.etag ELSE d.etag,
           tier1 |-> d.outcome,
           tier2 |-> IF t2 THEN s.outcome ELSE "not_invoked",
           tier3 |-> t3, tier4 |-> t4,
           rows1 |-> Len(d.rows),
           rows2 |-> IF t2 THEN Len(s.rows) ELSE 0,
           rows3 |-> IF t3 THEN Len(rows3) ELSE 0]

----------------------------------------------------------------------------
(* cli.ts: the refresh command *)

SimpleCollectors == {"claude", "codex", "openclaw", "apprentice"}

\* the order in which refresh concatenates the collectors' events
CollectorOrder == <<"claude", "codex", "cursor", "openclaw", "apprentice">>

Collectors == Range(CollectorOrder)

CollectorIndex(c) == CHOOSE i \in 1..Len(CollectorOrder) : CollectorOrder[i] = c

\* the record a simple collector finds in its source log: an assistant
\* message with a timestamp and token counts
sourceEntry(c) ==
  LET ts == tsOf(MaxId + 4 + CollectorIndex(c))
      counts == [input |-> 1, output |-> 1, cacheWrite |-> 0, cacheRead |-> 0]
  IN CASE c = "claude" ->
            [timestamp |-> ts, model |-> Some(<<1, 2>>), usage |-> Some(counts),
             skip |-> FALSE, billing |-> Some("subscription")]
       [] c = "codex" ->
            [kind |-> "usage", timestamp |-> ts, model |-> Some(<<1, 2>>),
             last |-> NULL, total |-> NULL, usage |-> Some(counts)]
       [] c = "openclaw" ->
            [timestamp |-> ts, ms |-> NULL, model |-> Some(<<1, 2>>),
             usage |-> Some(counts), skip |-> FALSE, billing |-> NULL]
       [] c = "apprentice" ->
            [timestamp |-> ts, model |-> NULL, usage |-> Some(counts)]

\* the events a simple collector makes of a log read at time t
collect(c, entries, t) ==
  CASE c = "claude" -> collectClaude(entries, t)
    [] c = "codex" -> collectCodex(entries, t)
    [] c = "openclaw" -> collectOpenClaw(entries, t)
    [] c = "apprentice" -> collectApprentice(entries)

\* the event a simple collector reads from its source log
sourceEvent(c) == collect(c, <<sourceEntry(c)>>, now)[1]

\* loadPricingTable(): the pricing file of this installation
LoadedPricing ==
  [models |-> << [provider |-> "anthropic", model |-> <<1>>,
                  input_per_million |-> MaxRate, output_per_million |-> MaxRate + 1,
                  cache_write_per_million |-> Some(1), cache_read_per_million |-> NULL] >>]

\* config.ui?.includeUnknown ?? false
LoadedOptions == [includeUnknown |-> Some(FALSE)]

RECURSIVE concatResults(_, _)
concatResults(res, i) ==
  IF i > Len(CollectorOrder) THEN <<>>
  ELSE res[CollectorOrder[i]][1].events \o concatResults(res, i + 1)

costAll(events) ==
  [i \in 1..Len(events) |-> applyCosting(events[i], LoadedPricing, LoadedOptions)]

Settled(c) == results[c] # NULL

Rejected(c) == Settled(c) /\ results[c][1].status = "rejected"

NoReport == [runs |-> 0, written |-> 0, counts |-> [c \in Collectors |-> 0]]

InitRefreshIdle ==
  /\ pc = "idle"
  /\ results = [c \in Collectors |-> NULL]
  /\ report = NoReport

----------------------------------------------------------------------------
(* cli.ts: the reprocess command *)

\* The billing tag that reprocess gives an event: for a Claude Code event the
\* registry's tag of its session or the default mode, for an OpenClaw event
\* the configured mode; cfg holds the two as resolved
billingTag(ev, cfg) ==
  IF ev.source = "claude_code" THEN Some(cfg.claudeBilling)
  ELSE IF ev.source = "openclaw" THEN Some(cfg.openclawBilling)
  ELSE ev.meta.billing

\* one pass of the loop body: the tag is put on the event, the event is
\* costed again, and a Cursor event without a project id gets the project
\* that findProjectForTimestamp found, if it found one
reprocessEvent(ev, table, opts, cfg) ==
  LET tagged == [ev EXCEPT !.meta.billing = billingTag(ev, cfg)]
      recosted == applyCosting(tagged, table, opts)
      attribute == ev.source = "cursor_ide" /\ ev.project.id = NULL
                   /\ cfg.project.id # NULL
  IN [event |-> IF attribute THEN [recosted EXCEPT !.project = cfg.project]
                ELSE recosted,
      updated |-> \/ tagged # ev
                  \/ recosted.cost.final_usd # ev.cost.final_usd
                  \/ attribute]

\* mutant: only the events that changed are handed to overwriteEvents
reprocess_onlyUpdated(fs, table, opts, cfg, dryRun, z) ==
  LET events == loadAllStoredEvents(fs)
      passes == [i \in 1..Len(events) |-> reprocessEvent(events[i], table, opts, cfg)]
      changed == SelectSeq(passes, LAMBDA q : q.updated)
  IN IF Len(events) = 0 \/ dryRun \/ changed = <<>>
     THEN [files |-> fs, written |-> 0]
     ELSE overwriteEvents(fs, [i \in 1..Len(changed) |-> changed[i].event], z)

\* the action handler: nothing is written on a dry run, for an empty store,
\* or when no event changed
reprocess(fs, table, opts, cfg, dryRun, z) ==
  LET events == loadAllStoredEvents(fs)
      passes == [i \in 1..Len(events) |-> reprocessEvent(events[i], table, opts, cfg)]
      reprocessed == [i \in 1..Len(events) |-> passes[i].event]
  IN IF Len(events) = 0 \/ dryRun \/ \A i \in 1..Len(events) : ~passes[i].updated
     THEN [files |-> fs, written |-> 0]
     ELSE overwriteEvents(fs, reprocessed, z)

----------------------------------------------------------------------------
(* The store harness and the cursor harness *)

\* a tier answers with no row or with one
RowCounts == {0, 1}

\* a 304 answers a conditional request: method GET with a stored validator
Possible(cfg, etag, env) ==
  env.team = "not_modified" =>
     /\ cfg.method = "GET"
     /\ etag[TeamKey] # NULL
     /\ etag[TeamKey][1].etag # NULL

\* The inputs of one run of collectCursor: a configuration and how the
\* environment answers.  What the run does not consult stays at its default,
\* so that each run is drawn once; the tiers are drawn one after the other.
DefaultEnv ==
  [dash |-> "ok", dashRows |-> 0, team |-> "ok", teamEtag |-> NULL,
   teamRows |-> 0, localRows |-> 0, transcriptRows |-> 0]

DefaultConfig == [auth |-> FALSE, url |-> FALSE, method |-> "POST"]

Tier1Inputs(etag, t) ==
  {in \in [auth : BOOLEAN, dash : {"ok", "error_status", "throw"}, dashRows : RowCounts] :
     LET o == fetchCursorDashboard([DefaultConfig EXCEPT !.auth = in.auth], etag, t,
                  [DefaultEnv EXCEPT !.dash = in.dash, !.dashRows = in.dashRows]).outcome
     IN /\ o \in {"no_auth", "cache_valid"} => in.dash = "ok"
        /\ o \in {"no_auth", "cache_valid", "threw"} => in.dashRows = 0}

Tier2Inputs(etag, t, in1) ==
  {in \in [url : BOOLEAN, method : {"GET", "POST"},
           team : {"ok", "not_modified", "error_status", "throw", "bad_json"},
           teamEtag : {NULL, Some("v1")}, teamRows : RowCounts] :
     LET cfg == [auth |-> in1.auth, url |-> in.url, method |-> in.method]
         env == [DefaultEnv EXCEPT !.dash = in1.dash, !.dashRows = in1.dashRows,
                                   !.team = in.team, !.teamEtag = in.teamEtag,
                                   !.teamRows = in.teamRows]
         o == collectCursor(cfg, etag, t, env).tier2
     IN /\ Possible(cfg, etag, env)
        /\ o \in {"not_invoked", "no_url", "cache_valid"} =>
              in.team = "ok" /\ in.method = "POST"
        /\ o = "not_invoked" => ~in.url
        /\ o \in {"not_invoked", "no_url", "cache_valid", "threw"} => in.teamEtag = NULL
        /\ o # "ok" => in.teamRows = 0}

CursorInputs(etag, t) ==
  UNION {UNION {
    {in \in {[cfg |-> [auth |-> in1.auth, url |-> in2.url, method |-> in2.method],
              env |-> [dash |-> in1.dash, dashRows |-> in1.dashRows,
                       team |-> in2.team, teamEtag |-> in2.teamEtag,
                       teamRows |-> in2.teamRows,
                       localRows |-> lr, transcriptRows |-> tr]] :
                 lr \in RowCounts, tr \in RowCounts} :
        LET r == collectCursor(in.cfg, etag, t, in.env)
        IN /\ ~r.tier3 => in.env.localRows = 0
           /\ ~r.tier4 => in.env.transcriptRows = 0}
    : in2 \in Tier2Inputs(etag, t, in1)} : in1 \in Tier1Inputs(etag, t)}

NoCall == [op |-> "none", storable |-> 0, ret |-> 0]

InitStore ==
  /\ files = [day \in Days |-> <<>>]
  /\ zone \in 0..MaxZone
  /\ lastCall = NoCall
  /\ write = NULL
  /\ writers = NoWriters

InitCostIdle ==
  /\ event = NULL
  /\ pricing = NULL
  /\ options = NULL
  /\ result = NULL
  /\ resultEarlier = NULL
  /\ heap = <<>>
  /\ resultRef = NULL

NoFn == [fn |-> "none"]

InitFnIdle ==
  /\ call = NoFn
  /\ ret = NULL

NoLogs == [collector |-> "none", entries |-> <<>>]

InitCollectIdle ==
  /\ logs = NoLogs
  /\ collected = <<>>

NoRun == [status |-> "none", events |-> <<>>, tier1 |-> "not_invoked",
          tier2 |-> "not_invoked", tier3 |-> FALSE, tier4 |-> FALSE,
          rows1 |-> 0, rows2 |-> 0, rows3 |-> 0]

InitCursorIdle ==
  /\ etagState = [k \in CacheKeys |-> NULL]
  /\ now = 0
  /\ cursorRun = NoRun

InitStoreIdle ==
  /\ files = [day \in Days |-> <<>>]
  /\ zone = 0
  /\ lastCall = NoCall
  /\ write = NULL
  /\ writers = NoWriters

\* one (serialized) call of writeEvents with an arbitrary batch
WriteEventsCall(batch) ==
  LET r == writeEvents(files, batch, zone)
  IN /\ files' = r.files
     /\ lastCall' = [op |-> "writeEvents",
                     storable |-> Len(SelectSeq(batch, LAMBDA e : toISODate(e.ts, zone) # NULL)),
                     ret |-> r.written]
     /\ write' = NULL
     /\ UNCHANGED <<zone, writers, cursorVars, refreshVars, costVars, fnVars, collectVars>>

\* a call of writeEvents in which a storage write fails
WriteEventsThrow(batch) ==
  LET calls == appendCalls(files, batch, zone)
  IN \E n \in 0..(Len(calls) - 1) :
       /\ files' = writeEventsThrowing(files, batch, zone, n)
       /\ write' = Some([calls |-> calls, done |-> n])
       /\ lastCall' = [op |-> "writeEvents threw",
                       storable |-> Len(SelectSeq(batch,
                                          LAMBDA e : toISODate(e.ts, zone) # NULL)),
                       ret |-> 0]
       /\ UNCHANGED <<zone, writers, cursorVars, refreshVars, costVars, fnVars, collectVars>>

CollectCursorCall ==
  \E in \in CursorInputs(etagState, now) :
    /\ LET r == collectCursor(in.cfg, etagState, now, in.env)
       IN /\ etagState' = r.etag
          /\ cursorRun' = [status |-> r.status, events |-> r.events,
                           tier1 |-> r.tier1, tier2 |-> r.tier2,
                           tier3 |-> r.tier3, tier4 |-> r.tier4,
                           rows1 |-> r.rows1, rows2 |-> r.rows2, rows3 |-> r.rows3]
    /\ UNCHANGED <<now, storeVars, refreshVars, costVars, fnVars, collectVars>>

Tick ==
  /\ now < MaxNow
  /\ now' = now + 1
  /\ UNCHANGED <<etagState, cursorRun, storeVars, refreshVars, costVars, fnVars, collectVars>>

Init == InitStore /\ InitCursorIdle /\ InitRefreshIdle /\ InitCostIdle /\ InitFnIdle /\ InitCollectIdle

Next == \E batch \in Batches : WriteEventsCall(batch)

Spec == Init /\ [][Next]_vars

\* the store when storage writes may fail
NextWrite ==
  \/ \E batch \in Batches : WriteEventsCall(batch)
  \/ \E batch \in Batches : WriteEventsThrow(batch)

SpecWrite == Init /\ [][NextWrite]_vars

InitCursor ==
  InitCursorIdle /\ InitStoreIdle /\ InitRefreshIdle /\ InitCostIdle /\ InitFnIdle /\ InitCollectIdle

NextCursor == CollectCursorCall \/ Tick

SpecCursor == InitCursor /\ [][NextCursor]_vars

----------------------------------------------------------------------------
(* The refresh run: the collectors are started together, settle in any     *)
(* order, and the handler continues when Promise.all settles               *)

RefreshStart ==
  /\ pc \in {"idle", "done", "failed"}
  /\ \A c \in Collectors : pc = "idle" \/ Settled(c)
  /\ report.runs < MaxRuns
  /\ pc' = "collecting"
  /\ results' = [c \in Collectors |-> NULL]
  /\ report' = [report EXCEPT !.runs = @ + 1]
  /\ UNCHANGED <<storeVars, cursorVars, costVars, fnVars, collectVars>>

\* a collector reading local logs: it returns the events of its log or
\* rejects on an I/O error (no collector catches a failing read)
Collect(c) ==
  /\ pc \in {"collecting", "failed"}
  /\ ~Settled(c)
  /\ \E r \in {[status |-> "returned", events |-> <<sourceEvent(c)>>],
               [status |-> "rejected", events |-> <<>>]} :
        results' = [results EXCEPT ![c] = Some(r)]
  /\ UNCHANGED <<pc, report, storeVars, cursorVars, costVars, fnVars, collectVars>>

CollectClaude == Collect("claude")

CollectCodex == Collect("codex")

CollectOpenClaw == Collect("openclaw")

CollectApprentice == Collect("apprentice")

CollectCursor ==
  /\ pc \in {"collecting", "failed"}
  /\ ~Settled("cursor")
  /\ \E in \in CursorInputs(etagState, now) :
       /\ LET r == collectCursor(in.cfg, etagState, now, in.env)
          IN /\ etagState' = r.etag
             /\ results' = [results EXCEPT !["cursor"] =
                              Some([status |-> r.status, events |-> r.events])]
  /\ UNCHANGED <<pc, report, now, cursorRun, storeVars, costVars, fnVars, collectVars>>

\* Promise.all rejects as soon as one collector has rejected: the handler
\* throws, nothing is costed or written, the process reports the error
RefreshFail ==
  /\ pc = "collecting"
  /\ \E c \in Collectors : Rejected(c)
  /\ pc' = "failed"
  /\ UNCHANGED <<results, report, storeVars, cursorVars, costVars, fnVars, collectVars>>

\* mutant: the events of a collector are written as soon as it has returned
RefreshWrite_early ==
  /\ pc = "collecting"
  /\ \E c \in Collectors :
       /\ Settled(c) /\ ~Rejected(c)
       /\ files' = writeEvents(files, costAll(results[c][1].events), zone).files
  /\ UNCHANGED <<pc, results, report, zone, lastCall, write, writers, cursorVars, costVars,
                 fnVars, collectVars>>

\* every collector returned: cost the events, write them, record the counts
RefreshWrite ==
  /\ pc = "collecting"
  /\ \A c \in Collectors : Settled(c) /\ ~Rejected(c)
  /\ LET rawEvents == concatResults(results, 1)
         costed == costAll(rawEvents)
         w == writeEvents(files, costed, zone)
     IN /\ files' = w.files
        /\ report' = [runs |-> report.runs, written |-> w.written,
                      counts |-> [c \in Collectors |-> Len(results[c][1].events)]]
  /\ pc' = "done"
  /\ UNCHANGED <<results, zone, lastCall, write, writers, cursorVars, costVars, fnVars, collectVars>>

InitRefresh ==
  /\ InitStoreIdle
  /\ InitCursorIdle
  /\ InitRefreshIdle
  /\ InitCostIdle
  /\ InitFnIdle /\ InitCollectIdle

NextRefresh ==
  \/ RefreshStart
  \/ CollectClaude
  \/ CollectCodex
  \/ CollectCursor
  \/ CollectOpenClaw
  \/ CollectApprentice
  \/ RefreshFail
  \/ RefreshWrite

SpecRefresh == InitRefresh /\ [][NextRefresh]_vars

----------------------------------------------------------------------------
(* The costing harness: one call of applyCosting on drawn inputs *)

InitCost ==
  /\ event \in CostingEvents
  /\ pricing \in PricingTables
  /\ options \in CostingOptions
  /\ result = NULL
  /\ resultEarlier = NULL
  /\ heap = toHeap(event)
  /\ resultRef = NULL
  /\ InitStoreIdle
  /\ InitCursorIdle
  /\ InitRefreshIdle
  /\ InitFnIdle /\ InitCollectIdle

\* `event` keeps the value the caller built before the call
ApplyCosting ==
  /\ result = NULL
  /\ LET r == applyCostingAt(heap, InputRef, pricing, options)
     IN /\ heap' = r.heap
        /\ resultRef' = Some(r.ref)
        /\ result' = Some(deref(r.heap, r.ref))
  /\ UNCHANGED <<event, pricing, options, resultEarlier, storeVars, cursorVars,
                 refreshVars, fnVars, collectVars>>

ApplyCostingEarlier ==
  /\ resultEarlier = NULL
  /\ resultEarlier' = Some(applyCostingEarlier(event, pricing, options))
  /\ UNCHANGED <<event, pricing, options, result, heap, resultRef,
                 storeVars, cursorVars, refreshVars, fnVars, collectVars>>

NextCost == ApplyCosting \/ ApplyCostingEarlier

SpecCost == InitCost /\ [][NextCost]_vars

----------------------------------------------------------------------------
(* The function harness: one call of an exported function on drawn inputs *)

\* stored events of four kinds: they differ in provider, source, model
\* (named, null, empty), project (named, unnamed with an id, empty name,
\* none), tokens and cost (estimated, unknown with a null final_usd, mixed,
\* subscription); the ts goes with the id as in the store harness
AggProfiles ==
  <<[source |-> "codex_cli", provider |-> "openai", model |-> Some(<<1>>),
     tokens |-> [in |-> 1, out |-> 1, cache_write |-> 0, cache_read |-> 0],
     cost |-> [reported_usd |-> NULL, estimated_usd |-> Some(2),
               final_usd |-> Some(2), mode |-> "estimated"],
     project |-> [id |-> NULL, name |-> Some(<<1>>), root |-> NULL],
     meta |-> [billing |-> NULL]],
    [source |-> "claude_code", provider |-> "anthropic", model |-> NULL,
     tokens |-> [in |-> 1, out |-> 0, cache_write |-> 1, cache_read |-> 1],
     cost |-> [reported_usd |-> NULL, estimated_usd |-> NULL,
               final_usd |-> NULL, mode |-> "unknown"],
     project |-> emptyProject,
     meta |-> [billing |-> NULL]],
    [source |-> "claude_code", provider |-> "anthropic", model |-> Some(<<>>),
     tokens |-> [in |-> 0, out |-> 1, cache_write |-> 0, cache_read |-> 1],
     cost |-> [reported_usd |-> Some(5), estimated_usd |-> Some(3),
               final_usd |-> Some(5), mode |-> "mixed"],
     project |-> [id |-> Some(<<2>>), name |-> NULL, root |-> NULL],
     meta |-> [billing |-> Some("api")]],
    [source |-> "cursor_ide", provider |-> "openai", model |-> Some(<<1, 2>>),
     tokens |-> [in |-> 1, out |-> 1, cache_write |-> 1, cache_read |-> 1],
     cost |-> [reported_usd |-> NULL, estimated_usd |-> Some(4),
               final_usd |-> Some(0), mode |-> "subscription"],
     project |-> [id |-> Some(<<2>>), name |-> Some(<<>>), root |-> NULL],
     meta |-> [billing |-> Some("subscription")]]>>

aggEvent(id) ==
  LET p == AggProfiles[id]
  IN [id |-> id, ts |-> tsOf(id), source |-> p.source, provider |-> p.provider,
      model |-> p.model, tokens |-> p.tokens, cost |-> p.cost,
      project |-> p.project, meta |-> p.meta]

AggEvents == {aggEvent(id) : id \in DOMAIN AggProfiles}

\* window ends from before the first event instant to after the last one
WindowEnds == {DateTime(Some(t), z) : t \in 0..(MaxInstant + 1), z \in 0..MaxZone}

AggregateCalls ==
  [fn : {"aggregateEvents"},
   events : SeqsUpTo(AggEvents, MaxEvents),
   timezone : 0..MaxZone,
   from : WindowEnds,
   to : WindowEnds]

\* pricing entries as a pricing file may hold them, an empty model name
\* included; the two input rates tell entries with the same key apart
FnPricingModels ==
  [provider : Providers,
   model : {<<>>, <<1>>, <<1, 2>>},
   input_per_million : 1..MaxRate,
   output_per_million : {MaxRate + 1},
   cache_write_per_million : {NULL},
   cache_read_per_million : {NULL}]

FindPricingCalls ==
  [fn : {"findPricing"},
   table : {[models |-> ms] : ms \in SeqsUpTo(FnPricingModels, MaxTableLen)},
   provider : Providers,
   model : {NULL, Some(<<>>)} \cup {Some(m) : m \in ModelNames}]

FnTokens ==
  [in : 0..MaxTok, out : 0..MaxTok, cache_write : 0..MaxTok, cache_read : 0..MaxTok]

\* estimateCostUsd is called on two token vectors and on their sum
EstimateCalls ==
  [fn : {"estimateCostUsd"},
   pricing : [provider : {"anthropic"},
              model : {<<1>>},
              input_per_million : {MaxRate},
              output_per_million : {MaxRate + 1},
              cache_write_per_million : {NULL, Some(1)},
              cache_read_per_million : {NULL, Some(2)}],
   a : FnTokens,
   b : FnTokens]

addTokens(a, b) ==
  [in |-> a.in + b.in, out |-> a.out + b.out,
   cache_write |-> a.cache_write + b.cache_write,
   cache_read |-> a.cache_read + b.cache_read]

InitFn ==
  /\ \/ call \in {c \in AggregateCalls : c.from.zone = c.to.zone}
     \/ call \in FindPricingCalls
     \/ call \in EstimateCalls
  /\ ret = NULL
  /\ InitStoreIdle
  /\ InitCursorIdle
  /\ InitRefreshIdle
  /\ InitCostIdle
  /\ InitCollectIdle

AggregateEvents ==
  /\ call.fn = "aggregateEvents"
  /\ ret = NULL
  /\ ret' = Some(aggregateEvents(call.events, call.timezone, call.from, call.to, zone))
  /\ UNCHANGED <<call, storeVars, cursorVars, refreshVars, costVars, collectVars>>

FindPricing ==
  /\ call.fn = "findPricing"
  /\ ret = NULL
  /\ ret' = Some(findPricing(call.table, call.provider, call.model))
  /\ UNCHANGED <<call, storeVars, cursorVars, refreshVars, costVars, collectVars>>

EstimateCostUsd ==
  /\ call.fn = "estimateCostUsd"
  /\ ret = NULL
  /\ ret' = Some([a |-> estimateCostUsd(call.pricing, call.a),
                  b |-> estimateCostUsd(call.pricing, call.b),
                  sum |-> estimateCostUsd(call.pricing, addTokens(call.a, call.b))])
  /\ UNCHANGED <<call, storeVars, cursorVars, refreshVars, costVars, collectVars>>

NextFn == AggregateEvents \/ FindPricing \/ EstimateCostUsd

SpecFn == InitFn /\ [][NextFn]_vars

----------------------------------------------------------------------------
(* Collector harness: a source log that does not change, collected at several
   times of the wall clock *)

\* a timestamp field: absent, a text that is no instant, an instant
RawTimes == {NULL, Some(-1), Some(1)}

Usages ==
  {zeroUsage,
   [input |-> 1, output |-> 0, cacheWrite |-> 0, cacheRead |-> 0],
   [input |-> 1, output |-> 1, cacheWrite |-> 0, cacheRead |-> 1]}

UsageFields == {NULL} \cup {Some(u) : u \in Usages}

ClaudeEntries ==
  [timestamp : RawTimes, model : {Some(<<1>>)}, usage : UsageFields,
   skip : {FALSE}, billing : {NULL}]
  \cup {[timestamp |-> Some(1), model |-> Some(<<1>>),
          usage |-> Some([input |-> 1, output |-> 0, cacheWrite |-> 0, cacheRead |-> 0]),
          skip |-> TRUE, billing |-> NULL]}

OpenClawEntries ==
  [timestamp : RawTimes, ms : {NULL, Some(2)}, model : {Some(<<1>>)},
   usage : UsageFields, skip : {FALSE}, billing : {NULL}]
  \cup {[timestamp |-> Some(1), ms |-> NULL, model |-> Some(<<1>>),
          usage |-> Some([input |-> 1, output |-> 0, cacheWrite |-> 0, cacheRead |-> 0]),
          skip |-> TRUE, billing |-> NULL]}

ApprenticeEntries == [timestamp : RawTimes, model : {NULL}, usage : UsageFields]

CodexEntries ==
  [kind : {"token_count"}, timestamp : {NULL, Some(1)}, model : {Some(<<1>>)},
   last : {NULL, Some([input |-> 1, output |-> 0, cacheWrite |-> 0, cacheRead |-> 0])},
   total : {NULL,
            Some([input |-> 1, output |-> 0, cacheWrite |-> 0, cacheRead |-> 0]),
            Some([input |-> 1, output |-> 1, cacheWrite |-> 0, cacheRead |-> 1]),
            Some([input |-> 2, output |-> 0, cacheWrite |-> 0, cacheRead |-> 0])},
   usage : {NULL}]
  \cup [kind : {"usage"}, timestamp : {NULL, Some(1)}, model : {Some(<<1>>)},
         last : {NULL}, total : {NULL},
         usage : {NULL, Some(zeroUsage),
                  Some([input |-> 1, output |-> 0, cacheWrite |-> 0, cacheRead |-> 0])}]

DashboardEvents ==
  [timestamp : RawTimes, model : {Some(<<2>>)},
   tokenUsage : {NULL,
                 Some([input |-> 0, output |-> 0, cacheWrite |-> 0, cacheRead |-> 0,
                       totalCents |-> NULL]),
                 Some([input |-> 1, output |-> 1, cacheWrite |-> 0, cacheRead |-> 0,
                       totalCents |-> Some(0)]),
                 Some([input |-> 1, output |-> 1, cacheWrite |-> 0, cacheRead |-> 0,
                       totalCents |-> Some(5)])}]

SpendRecords ==
  [timestamp : RawTimes, model : {Some(<<2>>)}, usage : Usages,
   totalCents : {NULL, Some(5)}]

TranscriptFiles == [inputChars : {0, 1, 5}, outputChars : {0, 4}, mtime : {Some(1)}]

SimpleLogs ==
  {[collector |-> "claude", tier |-> "none", entries |-> es] :
     es \in SeqsUpTo(ClaudeEntries, 1)}
  \cup {[collector |-> "codex", tier |-> "none", entries |-> es] :
           es \in SeqsUpTo(CodexEntries, 2)}
  \cup {[collector |-> "openclaw", tier |-> "none", entries |-> es] :
           es \in SeqsUpTo(OpenClawEntries, 1)}
  \cup {[collector |-> "apprentice", tier |-> "none", entries |-> es] :
           es \in SeqsUpTo(ApprenticeEntries, 1)}

\* what the tier of collectCursor that answers has to read
CursorLogs ==
  {[collector |-> "cursor", tier |-> "dashboard", entries |-> es] :
     es \in SeqsUpTo(DashboardEvents, 1)}
  \cup {[collector |-> "cursor", tier |-> tier, entries |-> es] :
           tier \in {"team", "local"}, es \in SeqsUpTo(SpendRecords, 1)}
  \cup {[collector |-> "cursor", tier |-> "transcript", entries |-> es] :
           es \in SeqsUpTo(TranscriptFiles, 1)}

InitCollect ==
  /\ \/ logs \in SimpleLogs
     \/ logs \in CursorLogs
  /\ collected = <<>>
  /\ InitStoreIdle
  /\ InitCursorIdle
  /\ InitRefreshIdle
  /\ InitCostIdle
  /\ InitFnIdle

\* one run of a simple collector over the log, at the present time
Run(c) ==
  /\ logs.collector = c
  /\ Len(collected) < MaxRuns
  /\ collected' = Append(collected, collect(c, logs.entries, now))
  /\ UNCHANGED <<logs, storeVars, cursorVars, refreshVars, costVars, fnVars>>

ClaudeRun == Run("claude")

CodexRun == Run("codex")

OpenClawRun == Run("openclaw")

ApprenticeRun == Run("apprentice")

\* one run of collectCursor in which the tier logs.tier supplies the rows
CursorRun ==
  /\ logs.collector = "cursor"
  /\ Len(collected) < MaxRuns
  /\ collected' = Append(collected, cursorEvents(rowsOf(logs.tier, logs.entries, now)))
  /\ UNCHANGED <<logs, storeVars, cursorVars, refreshVars, costVars, fnVars>>

NextCollect == ClaudeRun \/ CodexRun \/ OpenClawRun \/ ApprenticeRun \/ CursorRun \/ Tick

SpecCollect == InitCollect /\ [][NextCollect]_vars

----------------------------------------------------------------------------
(* The load harness: a store filled by writeEvents and read back by the     *)
(* load functions of core/aggregate.ts                                      *)

\* event instants around the calendar boundaries: in the first year, just
\* before and at the start of the second year, in its second month, and on
\* the last day
LoadInstants ==
  <<1, unitTicks("year") - 1, unitTicks("year"),
    unitTicks("year") + unitTicks("month") + 1,
    unitTicks("year") + unitTicks("month") + unitTicks("day")>>

LastInstant == unitTicks("year") + unitTicks("month") + unitTicks("day") + 1

loadEvent(i) ==
  [aggEvent(((i - 1) % Len(AggProfiles)) + 1) EXCEPT !.id = i, !.ts = Some(LoadInstants[i])]

LoadEvents == {loadEvent(i) : i \in DOMAIN LoadInstants}

\* batches of one event: the store that a longer batch of different events
\* fills is the one its events fill when written one after the other
LoadBatches == {<<e>> : e \in LoadEvents}

LoadDays == 0..((LastInstant + MaxZone) \div TicksPerDay)

\* fs.readdirSync(eventsDir) of a store that writeEvents filled: one name
\* per day that got a line
RECURSIVE readdir(_, _)
readdir(fs, days) ==
  IF days = {} THEN <<>>
  ELSE LET d == Min(days)
       IN (IF fs[d] # <<>> THEN <<[kind |-> "day", day |-> d]>> ELSE <<>>)
            \o readdir(fs, days \ {d})

\* appendJsonl creates the directory with the first line
existsSync(fs) == \E d \in DOMAIN fs : fs[d] # <<>>

NoDate == [kind |-> "no_date"]

OtherName == [kind |-> "other"]

LoadNows == {DateTime(Some(t), 0) : t \in {unitTicks("year") + 1, LastInstant}}

LoadEnds ==
  {DateTime(Some(t), 0) : t \in {0, unitTicks("year") - 1, unitTicks("year"), LastInstant}}

InitLoad ==
  /\ files = [day \in LoadDays |-> <<>>]
  /\ zone \in 0..MaxZone
  /\ lastCall = NoCall
  /\ write = NULL
  /\ writers = NoWriters
  /\ InitFnIdle
  /\ InitCursorIdle
  /\ InitRefreshIdle
  /\ InitCostIdle
  /\ InitCollectIdle

\* a refresh that stores a batch; the result of an earlier command is gone
LoadWrite(batch) ==
  /\ files' = writeEvents(files, batch, zone).files
  /\ call' = NoFn
  /\ ret' = NULL
  /\ UNCHANGED <<zone, lastCall, write, writers, cursorVars, refreshVars, costVars, collectVars>>

\* a command calls one load function and ends
LoadEventsForRange ==
  \E timezone \in 0..MaxZone, from \in LoadEnds, to \in LoadEnds :
    /\ ret = NULL
    /\ ~lessThan(to, from)
    /\ call' = [fn |-> "loadEventsForRange", timezone |-> timezone,
                from |-> from, to |-> to]
    /\ ret' = Some(loadEventsForRange(existsSync(files), files, timezone, from, to))
    /\ UNCHANGED <<storeVars, cursorVars, refreshVars, costVars, collectVars>>

\* the directory as writeEvents left it, or with stray names next to the
\* day files, or missing
LoadAllEvents ==
  \E timezone \in 0..MaxZone, nowAt \in LoadNows, dirExists \in BOOLEAN,
     names \in {readdir(files, LoadDays),
                <<OtherName>> \o readdir(files, LoadDays) \o <<NoDate>>} :
    /\ ret = NULL
    /\ call' = [fn |-> "loadAllEvents", timezone |-> timezone, now |-> nowAt,
                dirExists |-> dirExists, names |-> names]
    /\ ret' = Some(loadAllEvents(dirExists, names, files, timezone, nowAt, zone))
    /\ UNCHANGED <<storeVars, cursorVars, refreshVars, costVars, collectVars>>

LoadSummaries ==
  \E timezone \in 0..MaxZone, nowAt \in LoadNows :
    /\ ret = NULL
    /\ call' = [fn |-> "loadSummaries", timezone |-> timezone, now |-> nowAt]
    /\ ret' = Some(loadSummaries(existsSync(files), readdir(files, LoadDays),
                                 files, timezone, nowAt, zone))
    /\ UNCHANGED <<storeVars, cursorVars, refreshVars, costVars, collectVars>>

NextLoad ==
  \/ \E batch \in LoadBatches : LoadWrite(batch)
  \/ LoadEventsForRange
  \/ LoadAllEvents
  \/ LoadSummaries

SpecLoad == InitLoad /\ [][NextLoad]_vars

----------------------------------------------------------------------------
(* The reprocess harness: a store that refreshes fill and that the          *)
(* reprocess command, the one caller of overwriteEvents, rewrites           *)

\* a Cursor event that has no project yet and a Claude Code event
TaggedEvents ==
  {[id |-> MaxId + 1, ts |-> tsOf(MaxId + 1), source |-> "cursor_ide",
    provider |-> "openai", model |-> Some(<<1>>),
    tokens |-> [in |-> 1, out |-> 1, cache_write |-> 0, cache_read |-> 0],
    cost |-> [reported_usd |-> NULL, estimated_usd |-> Some(1),
              final_usd |-> Some(1), mode |-> "estimated"],
    project |-> emptyProject,
    meta |-> [billing |-> NULL]],
   [mkEvent(MaxId + 2, tsOf(MaxId + 2), 1) EXCEPT
      !.source = "claude_code", !.provider = "anthropic"]}

\* batches of one event, and a batch that carries an event twice
ReprocessBatches ==
  {<<e>> : e \in StoreEvents \cup TaggedEvents}
    \cup {<<mkEvent(1, tsOf(1), 1), mkEvent(1, tsOf(1), 1)>>}

\* the pricing file: a price for the model of the stored events
ReprocessTable ==
  [models |-> << [provider |-> "openai", model |-> <<1>>,
                  input_per_million |-> MaxRate, output_per_million |-> MaxRate,
                  cache_write_per_million |-> NULL,
                  cache_read_per_million |-> NULL] >>]

\* the resolved billing modes and what the workspace activity map finds
ReprocessConfig ==
  [claudeBilling |-> "subscription",
   openclawBilling |-> "estimate",
   project |-> [id |-> Some(<<1>>), name |-> Some(<<1>>), root |-> NULL]]

Reprocess ==
  \E dryRun \in BOOLEAN :
    LET r == reprocess(files, ReprocessTable, LoadedOptions, ReprocessConfig, dryRun, zone)
    IN /\ files' = r.files
       /\ lastCall' = [op |-> "reprocess",
                       storable |-> Len(loadAllStoredEvents(files)),
                       ret |-> r.written]
       /\ write' = NULL
       /\ UNCHANGED <<zone, writers, cursorVars, refreshVars, costVars, fnVars, collectVars>>

NextReprocess ==
  \/ \E batch \in ReprocessBatches : WriteEventsCall(batch)
  \/ Reprocess

SpecReprocess == Init /\ [][NextReprocess]_vars

----------------------------------------------------------------------------
(* The concurrency harness: two writeEvents runs on one events directory,   *)
(* interleaved at the reads and the appends                                 *)

RaceEvents == {mkEvent(id, tsOf(id), 1) : id \in 1..MaxId}

\* batches that carry an id once
RaceBatches ==
  {b \in SeqsUpTo(RaceEvents, MaxBatch) :
     \A i, j \in 1..Len(b) : b[i].id = b[j].id => i = j}

running(r) == r.pc \in {"read", "append"}

\* a run is called, once per process; `overlapped` remembers that some run
\* was called while another one was in progress
StartWrite(p, batch) ==
  /\ writers.run[p].pc = "idle"
  /\ writers' = [run |-> [writers.run EXCEPT ![p] = startRun(batch, zone)],
                 overlapped |-> \/ writers.overlapped
                                \/ \E q \in Procs \ {p} : running(writers.run[q])]
  /\ UNCHANGED <<files, zone, lastCall, write, cursorVars, refreshVars, costVars,
                 fnVars, collectVars>>

ReadDay(p) ==
  /\ writers.run[p].pc = "read"
  /\ writers' = [writers EXCEPT !.run[p] = readDay(@, files, zone)]
  /\ UNCHANGED <<files, zone, lastCall, write, cursorVars, refreshVars, costVars,
                 fnVars, collectVars>>

AppendNext(p) ==
  /\ writers.run[p].pc = "append"
  /\ LET r == appendNext(writers.run[p], files)
     IN /\ files' = r.files
        /\ writers' = [writers EXCEPT !.run[p] = r.run]
  /\ UNCHANGED <<zone, lastCall, write, cursorVars, refreshVars, costVars,
                 fnVars, collectVars>>

NextRace ==
  \E p \in Procs :
    \/ \E batch \in RaceBatches : StartWrite(p, batch)
    \/ ReadDay(p)
    \/ AppendNext(p)

SpecRace == Init /\ [][NextRace]_vars

----------------------------------------------------------------------------
(* Properties *)

\* C1: from every store state, for every batch B, writeEvents(B) followed by
\* writeEvents(B) leaves every day file as it was after the first call, and
\* the second call returns 0.
C1_DedupIdempotent ==
  \A batch \in Batches :
    LET first == writeEvents(files, batch, zone)
        second == writeEvents(first.files, batch, zone)
    IN /\ second.files = first.files
       /\ second.written = 0

\* a call offered events with a valid ts to a store that already held all of
\* them (as a second call with the same batch does) and appended nothing
C1_Witness ==
  /\ lastCall.op = "writeEvents"
  /\ lastCall.storable > 0
  /\ lastCall.ret = 0
  /\ \E day \in Days : files[day] # <<>>

\* C2: no day file holds two records with the same id (the claim as stated).
C2_NoDuplicateIds ==
  \A day \in Days : \A i, j \in 1..Len(files[day]) :
     i # j => files[day][i].id # files[day][j].id

CacheSkipped == {"cache_valid", "not_modified"}

\* C3: when a network tier of collectCursor is skipped on a valid cache or
\* answered not-modified, no later tier is invoked and no event is returned
\* (the claim as stated).
C3_CacheSkipEndsChain ==
  /\ cursorRun.tier1 \in CacheSkipped =>
        /\ cursorRun.tier2 = "not_invoked"
        /\ ~cursorRun.tier3 /\ ~cursorRun.tier4
        /\ cursorRun.events = <<>>
  /\ cursorRun.tier2 \in CacheSkipped =>
        /\ ~cursorRun.tier3 /\ ~cursorRun.tier4
        /\ cursorRun.events = <<>>

\* the outcomes of a tier whose request was made and was not answered from cache
Attempted == {"ok", "error_status", "threw", "bad_json"}

\* C4: in a run of collectCursor that returns, a tier that was attempted and
\* gave no row is followed by the next tier, and no tier runs after a tier
\* that gave a row (the claim as stated).
C4_EmptyTierEscalates ==
  cursorRun.status = "returned" =>
  /\ (cursorRun.tier1 \in Attempted /\ cursorRun.rows1 = 0) => cursorRun.tier2 # "not_invoked"
  /\ (cursorRun.tier2 \in Attempted /\ cursorRun.rows2 = 0) => cursorRun.tier3
  /\ (cursorRun.tier3 /\ cursorRun.rows3 = 0) => cursorRun.tier4
  /\ cursorRun.rows1 > 0 => cursorRun.tier2 = "not_invoked" /\ ~cursorRun.tier3 /\ ~cursorRun.tier4
  /\ cursorRun.rows2 > 0 => ~cursorRun.tier3 /\ ~cursorRun.tier4
  /\ cursorRun.rows3 > 0 => ~cursorRun.tier4

Stored(e) == \E day \in Days : \E i \in 1..Len(files[day]) : files[day][i].id = e.id

\* C5: once a refresh run is over in which a collector rejected, the events
\* the other collectors returned are in the store (the claim as stated).
C5_CollectorIsolation ==
  (/\ pc \in {"done", "failed"}
   /\ \A c \in Collectors : Settled(c)
   /\ \E c \in Collectors : Rejected(c))
  => \A c \in Collectors :
       ~Rejected(c) => \A i \in 1..Len(results[c][1].events) : Stored(results[c][1].events[i])

NetworkFailure == {"threw", "error_status"}

\* C6: a request of tier 1 or tier 2 that throws or answers non-OK never
\* makes collectCursor reject; the run goes on to the next tier (the claim
\* as stated).
C6_NetworkFailureDegrades ==
  /\ (cursorRun.tier1 \in NetworkFailure \/ cursorRun.tier2 \in NetworkFailure)
        => cursorRun.status = "returned"
  /\ (cursorRun.tier1 \in NetworkFailure /\ cursorRun.rows1 = 0)
        => cursorRun.tier2 # "not_invoked"
  /\ cursorRun.tier2 \in NetworkFailure => cursorRun.tier3

Subscription == event.meta.billing = Some("subscription")

Resolves == findPricing(pricing, event.provider, event.model) # NULL

\* C7: an event tagged meta.billing = "subscription" gets final_usd = 0 and
\* mode "subscription", whatever its tokens, reported_usd and pricing.
C7_SubscriptionFirst ==
  (result # NULL /\ Subscription)
  => result[1].cost.final_usd = Some(0) /\ result[1].cost.mode = "subscription"

\* a subscription event with tokens, a reported figure and a resolving price
C7_Witness ==
  /\ result # NULL /\ Subscription
  /\ event.cost.reported_usd # NULL
  /\ Resolves
  /\ event.tokens.in > 0

C9_ReportedOnlyIsReported ==
  (result # NULL /\ ~Subscription /\ event.cost.reported_usd # NULL
   /\ event.cost.estimated_usd = NULL)
  => /\ result[1].cost.final_usd = event.cost.reported_usd
     /\ result[1].cost.mode = "reported"

\* C10: a non-subscription event without reported_usd and without a pricing
\* entry gets mode "unknown"; final_usd is the input's estimated_usd when
\* includeUnknown is true, and null when it is false or omitted.
C10_UnknownModelPolicy ==
  (result # NULL /\ ~Subscription /\ event.cost.reported_usd = NULL /\ ~Resolves)
  => /\ result[1].cost.mode = "unknown"
     /\ result[1].cost.final_usd =
          IF options.includeUnknown = Some(TRUE) THEN event.cost.estimated_usd ELSE NULL
     /\ result[1].cost.estimated_usd = event.cost.estimated_usd

\* an unknown model costed with includeUnknown on and an estimate on input
C10_Witness ==
  /\ result # NULL /\ ~Subscription /\ event.cost.reported_usd = NULL /\ ~Resolves
  /\ options.includeUnknown = Some(TRUE)
  /\ event.cost.estimated_usd # NULL
  /\ event.model # NULL

\* C11 (as stated): after applyCosting, final_usd is non-null unless the mode
\* is "unknown" and includeUnknown is disabled.
C11_FinalNonNull ==
  result # NULL
  => \/ result[1].cost.final_usd # NULL
     \/ (result[1].cost.mode = "unknown" /\ ~includeUnknown(options))

\* C11 (amended): after applyCosting, of either variant, final_usd is non-null
\* unless the mode is "unknown" and either includeUnknown is disabled or the
\* event carried no estimated_usd.
C11_FinalNonNullOrUnknown ==
  \A r \in {result, resultEarlier} :
    r # NULL
    => \/ r[1].cost.final_usd # NULL
       \/ /\ r[1].cost.mode = "unknown"
          /\ (~includeUnknown(options) \/ event.cost.estimated_usd = NULL)

\* an event priced from the table although it came in with a null final_usd
C11_Witness ==
  /\ result # NULL
  /\ event.cost.final_usd = NULL
  /\ result[1].cost.mode = "estimated"
  /\ result[1].cost.final_usd # NULL

\* C12: applyCosting leaves its input as it was (the event object and its
\* cost, tokens, project and meta objects) and returns another object, with
\* another cost object.
C12_InputNotMutated ==
  result # NULL
  => /\ SubSeq(heap, 1, InputRef) = toHeap(event)
     /\ resultRef # Some(InputRef)
     /\ heap[resultRef[1]].cost # heap[InputRef].cost

\* a call that changed estimated_usd, final_usd and mode in what it returned
C12_Witness ==
  /\ result # NULL
  /\ result[1].cost.estimated_usd # event.cost.estimated_usd
  /\ result[1].cost.final_usd # event.cost.final_usd
  /\ result[1].cost.mode # event.cost.mode

Aggregated == call.fn = "aggregateEvents" /\ ret # NULL

\* the positions of call.events whose instant lies in [from, to]
InRange ==
  {i \in 1..Len(call.events) :
     /\ call.from.t[1] <= call.events[i].ts[1]
     /\ call.events[i].ts[1] <= call.to.t[1]}

\* C13: aggregateEvents counts exactly the events whose instant is in
\* [from, to], both ends included, whatever the timezone argument and the
\* zone the window ends are given in.
C13_WindowInclusive ==
  Aggregated => ret[1].totals.count = Cardinality(InRange)

\* an event at `from` and an event at `to` are counted, in a timezone other
\* than the one of the window ends
C13_Witness ==
  /\ Aggregated
  /\ call.timezone # call.from.zone
  /\ call.from.t[1] < call.to.t[1]
  /\ \E i, j \in InRange : /\ call.events[i].ts = call.from.t
                           /\ call.events[j].ts = call.to.t
  /\ ret[1].totals.count = 2

TotalsFields ==
  {"count", "tokens_in", "tokens_out", "cache_write", "cache_read",
   "reported_usd", "estimated_usd", "final_usd", "unknown_cost"}

RECURSIVE SumBuckets(_, _, _)
SumBuckets(breakdown, keys, field) ==
  IF keys = {} THEN 0
  ELSE LET k == CHOOSE x \in keys : TRUE
       IN breakdown[k][field] + SumBuckets(breakdown, keys \ {k}, field)

Consistent(breakdown, totals) ==
  /\ \A field \in TotalsFields :
        SumBuckets(breakdown, DOMAIN breakdown, field) = totals[field]
  /\ \A k \in DOMAIN breakdown : breakdown[k].count >= 1

Found == call.fn = "findPricing" /\ ret # NULL

\* the positions of the table with the queried provider and exactly the model m
Exact(m) ==
  {i \in 1..Len(call.table.models) :
     call.table.models[i].provider = call.provider /\ call.table.models[i].model = m}

\* the positions with the queried provider whose model occurs inside m
Fuzzy(m) ==
  {i \in 1..Len(call.table.models) :
     /\ call.table.models[i].provider = call.provider
     /\ \E lo \in 1..(Len(m) + 1), hi \in 0..Len(m) :
          SubSeq(m, lo, hi) = call.table.models[i].model}

\* the decision list of the claim for a queried model m
FindPricingRule(m) ==
  /\ Exact(m) # {} => ret[1] # NULL /\ \E i \in Exact(m) : ret[1][1] = call.table.models[i]
  /\ (Exact(m) = {} /\ Fuzzy(m) # {})
       => ret[1] = Some(call.table.models[Min(Fuzzy(m))])
  /\ (Exact(m) = {} /\ Fuzzy(m) = {}) => ret[1] = NULL
  /\ ret[1] # NULL => ret[1][1].provider = call.provider

\* C15 (as stated): null for a null model; else the exact entry of the
\* provider; else the first entry of the provider whose model is a substring
\* of the queried one; else null; never an entry of another provider.
C15_FindPricing ==
  Found => IF call.model = NULL THEN ret[1] = NULL ELSE FindPricingRule(call.model[1])

\* C15 (amended): as stated, with null also returned for an empty model string.
C15_FindPricingNonEmpty ==
  Found => IF call.model = NULL \/ call.model = Some(<<>>)
           THEN ret[1] = NULL
           ELSE FindPricingRule(call.model[1])

\* the exact entry is returned although an entry that matches as a substring
\* stands before it in the table
C15_Witness ==
  /\ Found
  /\ call.model # NULL
  /\ Exact(call.model[1]) # {}
  /\ Min(Fuzzy(call.model[1])) < Min(Exact(call.model[1]))
  /\ ret[1] = Some(call.table.models[Min(Exact(call.model[1]))])
  /\ ret[1] # Some(call.table.models[Min(Fuzzy(call.model[1]))])

Estimated == call.fn = "estimateCostUsd" /\ ret # NULL

\* a and b differ at most in the cache counts whose rate is absent
SameButUnpricedCache ==
  /\ call.a.in = call.b.in
  /\ call.a.out = call.b.out
  /\ call.pricing.cache_write_per_million # NULL => call.a.cache_write = call.b.cache_write
  /\ call.pricing.cache_read_per_million # NULL => call.a.cache_read = call.b.cache_read

\* C16: the estimate does not depend on a cache count whose rate is absent,
\* is 0 for zero tokens, and the estimate of the sum of two token vectors is
\* the sum of their estimates.
C16_EstimateAdditive ==
  Estimated
  => /\ SameButUnpricedCache => ret[1].a = ret[1].b
     /\ call.a = [in |-> 0, out |-> 0, cache_write |-> 0, cache_read |-> 0]
          => ret[1].a = 0
     /\ ret[1].sum = ret[1].a + ret[1].b

\* two vectors with different cache_write counts under an entry without a
\* cache_write rate, all four counts of the sum positive
C16_Witness ==
  /\ Estimated
  /\ call.pricing.cache_write_per_million = NULL
  /\ call.pricing.cache_read_per_million # NULL
  /\ SameButUnpricedCache
  /\ call.a.cache_write # call.b.cache_write
  /\ call.a.in > 0 /\ call.a.out > 0 /\ call.a.cache_read > 0
  /\ ret[1].sum = ret[1].a + ret[1].b
  /\ ret[1].a > 0

\* an event whose four token fields are 0
ZeroTokens(e) ==
  e.tokens.in = 0 /\ e.tokens.out = 0 /\ e.tokens.cache_write = 0 /\ e.tokens.cache_read = 0

\* C17: no run of a collector (collectClaude, collectCodex, collectCursor in
\* any tier, collectOpenClaw, collectApprentice) emits an event whose four
\* token fields are all zero (the claim as stated).
C17_NoZeroTokenEvents ==
  \A r \in 1..Len(collected) : \A i \in 1..Len(collected[r]) :
     ~ZeroTokens(collected[r][i])

ids(events) == [i \in 1..Len(events) |-> events[i].id]

\* C18: the runs of a collector over an unchanged log, whatever the times
\* they happen at, yield the same list of event ids, records without a
\* parseable timestamp included (the claim as stated).
C18_RecollectionDeterministic ==
  \A r, q \in 1..Len(collected) : ids(collected[r]) = ids(collected[q])
\* the events of a batch that belong to a day and whose id the day's file
\* does not hold, in batch order
NewOf(batch, day) ==
  LET stored == {files[day][i].id : i \in 1..Len(files[day])}
  IN SelectSeq(batch, LAMBDA e : toISODate(e.ts, zone) = Some(day) /\ e.id \notin stored)

\* C19: whatever the store holds and whatever batch arrives, writeEvents
\* leaves in every day file the old content followed by the batch's events of
\* that day with ids not yet in the file, in batch order: the old content is
\* a prefix, and a stored id is not rewritten even if the incoming record
\* differs.
C19_AppendOnly ==
  \A batch \in Batches :
     LET after == writeEvents(files, batch, zone).files
     IN \A day \in Days : after[day] = files[day] \o NewOf(batch, day)

\* a call has appended, and the store now holds an id for which a batch has a
\* record with other fields, next to an event that is new
C19_Witness ==
  /\ lastCall.op = "writeEvents"
  /\ lastCall.ret > 0
  /\ \E batch \in Batches : \E day \in Days : \E i \in 1..Len(files[day]) :
        /\ \E k \in 1..Len(batch) :
              batch[k].id = files[day][i].id /\ batch[k] # files[day][i]
        /\ writeEvents(files, batch, zone).written > 0
\* the number of the first n calls that append to the file of `day`
CallsFor(calls, n, day) == Cardinality({k \in 1..n : calls[k].day = day})

\* C20: after a writeEvents call in which a storage write failed, every day
\* file holds all of the new events the run had for that day or none of them
\* (the claim as stated).
C20_AllOrNothing ==
  write # NULL =>
    \A day \in Days :
       \/ CallsFor(write[1].calls, write[1].done, day) = 0
       \/ CallsFor(write[1].calls, write[1].done, day)
            = CallsFor(write[1].calls, Len(write[1].calls), day)
\* the outcomes of a request that got a non-OK status or threw
FailedCheck == {"error_status", "threw"}

lastCheckedOf(etag, key) == IF etag[key] = NULL THEN NULL ELSE etag[key][1].lastChecked

\* C21: a run of collectCursor in which the request of tier 1 or of tier 2
\* gets a non-OK status or throws leaves the lastChecked of that tier's
\* cache entry as it was (the claim as stated).
C21_FailureKeepsLastChecked ==
  [][/\ cursorRun' # cursorRun
     /\ \/ cursorRun'.tier1 \in FailedCheck
        \/ cursorRun'.tier2 \in FailedCheck
     => /\ cursorRun'.tier1 \in FailedCheck =>
             lastCheckedOf(etagState', DashKey) = lastCheckedOf(etagState, DashKey)
        /\ cursorRun'.tier2 \in FailedCheck =>
             lastCheckedOf(etagState', TeamKey) = lastCheckedOf(etagState, TeamKey)]_vars
\* what etag.json may hold under a key: nothing, an entry without
\* lastChecked, with a lastChecked that is no date, with an instant
CacheEntries ==
  {NULL} \cup {Some([etag |-> NULL, lastChecked |-> lc]) :
                 lc \in {NULL, Some(-1)} \cup {Some(t) : t \in 0..MaxNow}}

Fresh(entry, t) ==
  /\ entry # NULL
  /\ entry[1].lastChecked # NULL
  /\ entry[1].lastChecked[1] >= 0
  /\ t - entry[1].lastChecked[1] < TtlTicks

TotalOf(entry) ==
  LET u == normalizeUsage(entry) IN IF u = NULL THEN NULL ELSE u[1].total

Clamped(n) == IF n < 0 THEN 0 ELSE n

DeltaOf(t1, t2) ==
  [in |-> Clamped(t2.input - t1.input),
   out |-> Clamped(t2.output - t1.output),
   cache_write |-> Clamped(t2.cacheWrite - t1.cacheWrite),
   cache_read |-> Clamped(t2.cacheRead - t1.cacheRead)]

\* a Codex session file of two entries that carry running totals
TwoTotals ==
  /\ logs.collector = "codex"
  /\ Len(logs.entries) = 2
  /\ TotalOf(logs.entries[1]) # NULL
  /\ TotalOf(logs.entries[2]) # NULL

\* C23: in collectCodex, for two consecutive entries of a session file with
\* running totals T1 then T2, the second entry yields no event when T2 = T1
\* or max(T2 - T1, 0) is zero in all four fields, and otherwise one event
\* whose tokens are max(T2 - T1, 0) in each field; a session file read after
\* another one yields the events it yields when read alone.
C23_CumulativeToDelta ==
  /\ TwoTotals =>
       LET first == collectCodex(<<logs.entries[1]>>, now)
           both == collectCodex(logs.entries, now)
           d == DeltaOf(TotalOf(logs.entries[1])[1], TotalOf(logs.entries[2])[1])
       IN IF ZeroTokens([tokens |-> d])
          THEN both = first
          ELSE /\ Len(both) = Len(first) + 1
               /\ SubSeq(both, 1, Len(first)) = first
               /\ both[Len(both)].tokens = d
  /\ logs.collector = "codex" =>
       \A other \in SeqsUpTo(CodexEntries, 1) :
          collectCodexFiles(<<other, logs.entries>>, now)
            = collectCodex(other, now) \o collectCodex(logs.entries, now)

\* a run over a session whose second total is higher in one field and lower
\* in another than the first has emitted the clamped difference
C23_Witness ==
  /\ TwoTotals
  /\ TotalOf(logs.entries[2])[1].input > TotalOf(logs.entries[1])[1].input
  /\ TotalOf(logs.entries[2])[1].output < TotalOf(logs.entries[1])[1].output
  /\ Len(collected) > 0
  /\ Len(collected[1]) > 0
  /\ collected[1][Len(collected[1])].tokens
       = [in |-> 1, out |-> 0, cache_write |-> 0, cache_read |-> 0]
\* C24: in refresh, a day file changes only in a step taken when every
\* collector has returned; while a collector is still running or after one
\* has rejected, no step changes the event store.
C24_WriteAfterJoin ==
  [][files' # files =>
       /\ pc = "collecting"
       /\ \A c \in Collectors : Settled(c) /\ ~Rejected(c)]_vars

\* a run has ended with new events written
C24_Witness ==
  /\ pc = "done"
  /\ report.written > 0
  /\ \E day \in Days : files[day] # <<>>

\* directory listings whose names are unrelated to what the day files hold
DirNames ==
  {[kind |-> "day", day |-> d] : d \in {1, unitTicks("year") \div TicksPerDay}}
    \cup {NoDate, OtherName}

Listings == SeqsUpTo(DirNames, 2)

datesOf(names) == {names[i].day : i \in {k \in 1..Len(names) : names[k].kind = "day"}}

\* C25: the earliest returned by loadAllEvents is the (local midnight of the)
\* earliest date among the YYYY-MM-DD.jsonl names of the directory, the same
\* whatever the files hold; with no directory or no such name it is now and
\* no events are returned
C25_EarliestFromNames ==
  \A dirExists \in BOOLEAN, names \in Listings, timezone \in 0..MaxZone,
     nowAt \in LoadNows :
    LET r == loadAllEvents(dirExists, names, files, timezone, nowAt, zone)
        empty == loadAllEvents(dirExists, names, [d \in LoadDays |-> <<>>],
                               timezone, nowAt, zone)
    IN /\ r.earliest = empty.earliest
       /\ IF dirExists /\ datesOf(names) # {}
          THEN r.earliest = DateTime(Some(Min(datesOf(names)) * TicksPerDay - zone), zone)
          ELSE r.earliest = nowAt /\ r.events = <<>>

\* loadAllEvents ran on a directory with two day files and stray names: the
\* bound is the earlier day although the scan met the later name too, and
\* events were loaded
C25_Witness ==
  /\ call.fn = "loadAllEvents"
  /\ call.dirExists
  /\ Cardinality(datesOf(call.names)) = 2
  /\ Head(call.names) = OtherName
  /\ ret[1].earliest.t = Some(Min(datesOf(call.names)) * TicksPerDay - zone)
  /\ Len(ret[1].events) = 2

stored(fs) == UNION {Range(fs[d]) : d \in DOMAIN fs}

within(e, from, to) == ~lessThan(DateTime(e.ts, 0), from) /\ ~lessThan(to, DateTime(e.ts, 0))

\* C29: for every reporting timezone and every range [from, to], each stored
\* event whose instant lies in the range is among the events that
\* loadEventsForRange returns
C29_RangeLoadsStoredEvents ==
  \A timezone \in 0..MaxZone, from \in LoadEnds, to \in LoadEnds :
    \A e \in stored(files) :
      within(e, from, to) =>
        e \in Range(loadEventsForRange(existsSync(files), files, timezone, from, to))

C30Nows ==
  {DateTime(Some(t), 0) : t \in {0, unitTicks("year") - 1, unitTicks("year") + 1, LastInstant}}

\* the positions of the loaded events that a window [from, to] counts
counted(events, timezone, from, to) ==
  {i \in 1..Len(events) : inWindow(events[i], timezone, from, to, zone)}

\* C30: for a store filled by writeEvents and any now, the events counted in
\* today are counted in month-to-date, those in year-to-date, and those in
\* all-time, and the four counts of loadSummaries are the sizes of these sets
C30_WindowsNested ==
  \A timezone \in 0..MaxZone, nowAt \in C30Nows :
    LET dirExists == existsSync(files)
        names == readdir(files, LoadDays)
        s == loadSummaries(dirExists, names, files, timezone, nowAt, zone)
        loaded == loadAllEvents(dirExists, names, files, timezone, nowAt, zone)
        local == setZone(nowAt, timezone)
        today == counted(loaded.events, timezone, startOf(local, "day"), nowAt)
        mtd == counted(loaded.events, timezone, startOf(local, "month"), nowAt)
        ytd == counted(loaded.events, timezone, startOf(local, "year"), nowAt)
        all == counted(loaded.events, timezone, loaded.earliest, nowAt)
    IN /\ today \subseteq mtd /\ mtd \subseteq ytd /\ ytd \subseteq all
       /\ s.today.totals.count = Cardinality(today)
       /\ s.mtd.totals.count = Cardinality(mtd)
       /\ s.ytd.totals.count = Cardinality(ytd)
       /\ s.all.totals.count = Cardinality(all)
       /\ s.today.totals.count <= s.mtd.totals.count
       /\ s.mtd.totals.count <= s.ytd.totals.count
       /\ s.ytd.totals.count <= s.all.totals.count

\* loadSummaries ran on a store in which each window holds an event that the
\* next narrower one does not
C30_Witness ==
  /\ call.fn = "loadSummaries"
  /\ 0 < ret[1].today.totals.count
  /\ ret[1].today.totals.count < ret[1].mtd.totals.count
  /\ ret[1].mtd.totals.count < ret[1].ytd.totals.count
  /\ ret[1].ytd.totals.count < ret[1].all.totals.count

\* the positions of batch whose event belongs to `day`
incoming(batch, day) == {k \in 1..Len(batch) : toISODate(batch[k].ts, zone) = Some(day)}

OverwriteBatches == {b \in SeqsUpTo(StoreEvents \cup TaggedEvents, MaxBatch) : Len(b) <= 2}

\* C26: overwriteEvents makes every day file that has incoming events hold
\* exactly those events in input order, whatever it held before, leaves the
\* other day files as they are, and returns the number of events written
C26_OverwriteReplacesDays ==
  \A batch \in OverwriteBatches :
    LET r == overwriteEvents(files, batch, zone)
    IN /\ \A day \in Days :
            LET P == incoming(batch, day)
            IN IF P = {} THEN r.files[day] = files[day]
               ELSE /\ Len(r.files[day]) = Cardinality(P)
                    /\ \A k \in P :
                         r.files[day][Cardinality({j \in P : j <= k})] = batch[k]
       /\ r.written = Cardinality(UNION {incoming(batch, day) : day \in Days})

\* reprocess has overwritten a day file of two lines whose events differ
\* from the ones writeEvents had stored under these ids
C26_Witness ==
  /\ lastCall.op = "reprocess"
  /\ lastCall.ret >= 2
  /\ \E day \in Days :
       /\ Len(files[day]) = 2
       /\ files[day][1].id # files[day][2].id
       /\ \A i \in 1..2 : \E e \in StoreEvents \cup TaggedEvents :
            e.id = files[day][i].id /\ e # files[day][i]

countId(lines, id) == Cardinality({i \in 1..Len(lines) : lines[i].id = id})

\* C28: a reprocess run leaves, in every day file, every id as often as it
\* was there before
C28_ReprocessKeepsIds ==
  \A dryRun \in BOOLEAN, table \in {[models |-> <<>>], ReprocessTable} :
    LET r == reprocess(files, table, LoadedOptions, ReprocessConfig, dryRun, zone)
    IN \A day \in Days : \A id \in 0..(MaxId + 2) :
         countId(r.files[day], id) = countId(files[day], id)

\* a reprocess run rewrote a store of two day files, one of which holds an
\* id twice
C28_Witness ==
  /\ lastCall.op = "reprocess"
  /\ lastCall.ret >= 3
  /\ \E d1 \in Days, d2 \in Days : d1 # d2 /\ files[d1] # <<>> /\ files[d2] # <<>>
  /\ \E day \in Days : \E id \in 1..MaxId : countId(files[day], id) = 2

\* C27: writeEvents runs that overlap on one events directory can leave an
\* id twice in a day file (the witness); runs of which none was called while
\* another was in progress cannot
C27_SerializedRunsKeepIdsUnique ==
  ~writers.overlapped =>
    \A day \in Days : \A id \in 1..MaxId : countId(files[day], id) <= 1

\* two runs that overlapped have both returned; each carried the event once,
\* and its day file holds it twice
C27_Witness ==
  /\ writers.overlapped
  /\ \A p \in Procs : writers.run[p].pc = "done"
  /\ \E e \in RaceEvents :
       /\ \A p \in Procs : Cardinality({i \in 1..Len(writers.run[p].batch) :
                                          writers.run[p].batch[i] = e}) = 1
       /\ \E day \in Days : files[day] = <<e, e>>

====
